---- MODULE Spec2Model ----
\* Transaction lifecycle of fmus-fintech: EthereumTransaction (sign, serialize,
\* get_hash), EthereumTransactionManager (broadcast, get_receipt, get_status,
\* wait_for_receipt) and the JSON-RPC provider they talk to; the transaction
\* builder; the contract facade (function lookup, argument binding, read
\* and write dispatch, deploy); the WebSocket provider's subscriptions; the
\* ERC-20 token's metadata and amount conversion; and concurrent callers.
EXTENDS Integers, Sequences, FiniteSets, TLC

VARIABLES
    txs,        \* the EthereumTransaction objects: chain_id, v, r, s, _hash
    pending,    \* EthereumTransactionManager._pending_transactions
    requests,   \* the calls made to provider.request, in order
    reply,      \* the provider's response to the last of them
    chain,      \* the node: per transaction hash, its receipt (if mined)
    ret,        \* outcome of the last completed call: value returned or exception raised
    now,        \* the wall clock, time.time()
    wpc,        \* wait_for_receipt: position in the loop
    wArgs,      \* wait_for_receipt: tx_hash, timeout, poll_interval
    wStart,     \* wait_for_receipt: start_time
    wReceipt,   \* wait_for_receipt: the local variable receipt
    wWake,      \* wait_for_receipt: the time at which the current sleep ends
    wTrace,     \* wait_for_receipt: the get_receipt calls and sleeps made so far
    wResult,    \* wait_for_receipt: value returned or exception raised
    builder,    \* the EthereumTransactionBuilder: its fields
    bCalls,     \* the methods called on the builder so far, in order
    abi,        \* Contract.abi
    functions,  \* ContractFunctionGroup._functions of contract.read and contract.write
    wallet,     \* Ethereum.wallet
    invocations,\* the calls of contract functions so far: what was passed, what was dispatched
    allocated,  \* the number of ContractFunction objects constructed so far
    provider,   \* the class of Ethereum.provider: HttpProvider or WebSocketProvider
    subscriptions, \* WebSocketProvider._subscriptions
    network,    \* Ethereum._network
    connected,  \* Ethereum._connected
    ws,         \* WebSocketProvider._ws
    ethCalls,   \* the number of calls of send, get_balance and ERC20Token.transfer so far
    trace,      \* what the last of them called, in order
    subLog,     \* the caller's calls of provider.subscribe, unsubscribe and disconnect, in order
    token,      \* ERC20Token._name, _symbol and _decimals
    accesses,   \* the accesses to token.name, token.symbol and token.decimals so far
    fpc,        \* per concurrent flow: its position in the call it is executing
    fLocal      \* per concurrent flow: the call's arguments and local variables

vars == <<txs, pending, requests, reply, chain, ret, now,
          wpc, wArgs, wStart, wReceipt, wWake, wTrace, wResult,
          builder, bCalls, abi, functions, wallet, invocations,
          allocated, provider, subscriptions, network, connected, ws, ethCalls, trace,
          subLog, token, accesses, fpc, fLocal>>

txVars   == <<txs, pending, requests, reply, ret>>
waitVars == <<wpc, wArgs, wStart, wReceipt, wWake, wTrace, wResult>>
builderVars == <<builder, bCalls>>
contractVars == <<abi, functions, wallet, invocations>>
ethereumVars == <<allocated, provider, subscriptions, network, connected, ws, ethCalls, trace>>
networkVars == <<provider, subscriptions, network, connected, ws>>
tokenVars == <<token, accesses>>
flowVars == <<fpc, fLocal>>
restVars == <<subLog, token, accesses, fpc, fLocal>>

----------------------------------------------------------------------------
\* Bounds of the model.

MaxRequests == 2    \* provider requests made by direct manager calls in one run
MaxTimeout == 2     \* largest timeout passed to wait_for_receipt
MaxInterval == 2    \* largest poll_interval passed to wait_for_receipt
MaxStart == 1       \* latest clock value at which wait_for_receipt is called
MaxPollTime == 1    \* longest time one get_receipt request takes

\* Python's None, and a present value.
None == <<>>
Some(x) == <<x>>

\* s * n, built by doubling so that long strings need only a few nested calls.
RECURSIVE StrRepeat(_, _)
StrRepeat(s, n) ==
    IF n <= 0 THEN ""
    ELSE LET half == StrRepeat(s, n \div 2)
         IN  IF n % 2 = 0 THEN half \o half ELSE half \o half \o s

\* An exception: its type and the parts of its message.
Raise(type, msg) == Some([type |-> type, msg |-> msg])

\* A call's outcome: the exception it raised, or the value it returned.
Raised(exc) == [exc |-> exc, val |-> None]
Returned(v) == [exc |-> None, val |-> v]

----------------------------------------------------------------------------
\* EthereumTransaction

TxIds == {"tx1", "tx2"}

DefaultChainId == 1
GoerliChainId == 5

\* The transactions of the run, as constructed: tx1 with the default chain id,
\* tx2 for goerli; signature fields and hash absent.
NewTransaction(chain_id) ==
    [chain_id |-> chain_id, v |-> None, r |-> None, s |-> None, hash |-> None]

\* int.from_bytes(b, byteorder="big"): the integer as its base-256 digits,
\* most significant first, without leading zeros.
RECURSIVE FromBytesBig(_)
FromBytesBig(b) ==
    IF b = <<>> THEN <<>>
    ELSE IF Head(b) = 0 THEN FromBytesBig(Tail(b))
    ELSE b

\* bytes.fromhex of a two-digit pattern repeated n times.
BytesOf(byte, n) == [i \in 1..n |-> byte]

SigR == FromBytesBig(BytesOf(17, 32))
SigS == FromBytesBig(BytesOf(34, 32))
SigHash == "0x" \o StrRepeat("33", 32)
SerializedTx == "0x" \o StrRepeat("ff", 256)

\* sign() that fills the signature and forgets the hash.
SignTxNoHash(tx) ==
    [tx EXCEPT !.v = Some(27 + tx.chain_id * 2),
               !.r = Some(SigR),
               !.s = Some(SigS)]

\* sign() that withdraws the signature of a transaction already signed.
SignTxToggle(tx) ==
    IF tx.v = None
    THEN [tx EXCEPT !.v = Some(27 + tx.chain_id * 2),
                    !.r = Some(SigR),
                    !.s = Some(SigS),
                    !.hash = Some(SigHash)]
    ELSE [tx EXCEPT !.v = None, !.r = None, !.s = None, !.hash = None]

\* sign(): the transaction after signing.
SignTx(tx) ==
    [tx EXCEPT !.v = Some(27 + tx.chain_id * 2),
               !.r = Some(SigR),
               !.s = Some(SigS),
               !.hash = Some(SigHash)]

NotSigned == Raise("ValueError", <<"Transaction is not signed">>)

\* serialize()
SerializeTx(tx) ==
    IF tx.v = None \/ tx.r = None \/ tx.s = None
    THEN Raised(NotSigned)
    ELSE Returned(Some(SerializedTx))

\* get_hash()
GetHashTx(tx) ==
    IF tx.hash = None
    THEN Raised(NotSigned)
    ELSE Returned(tx.hash)

Call(op, target, out) == [op |-> op, target |-> target, exc |-> out.exc, val |-> out.val]

Sign(t) ==
    /\ txs' = [txs EXCEPT ![t] = SignTx(txs[t])]
    /\ ret' = Call("sign", t, Returned(Some(t)))
    /\ UNCHANGED <<restVars, pending, requests, reply, chain, now, waitVars, builderVars, contractVars, ethereumVars>>

\* serialize() that hands the signature over with the bytes it returns.
SerializeConsuming(t) ==
    /\ ret' = Call("serialize", t, SerializeTx(txs[t]))
    /\ txs' = [txs EXCEPT ![t] = [@ EXCEPT !.v = None, !.r = None, !.s = None]]
    /\ UNCHANGED <<restVars, pending, requests, reply, chain, now, waitVars, builderVars, contractVars, ethereumVars>>

Serialize(t) ==
    /\ ret' = Call("serialize", t, SerializeTx(txs[t]))
    /\ UNCHANGED <<restVars, txs, pending, requests, reply, chain, now, waitVars, builderVars, contractVars, ethereumVars>>

GetHash(t) ==
    /\ ret' = Call("get_hash", t, GetHashTx(txs[t]))
    /\ UNCHANGED <<restVars, txs, pending, requests, reply, chain, now, waitVars, builderVars, contractVars, ethereumVars>>

----------------------------------------------------------------------------
\* The node and the provider (NetworkProvider.request)

OtherHash == "0x" \o StrRepeat("aa", 32)

\* The transaction hashes the run queries and the node answers with.
Hashes == {SigHash, OtherHash}

HexChars == "0123456789abcdefABCDEF"

\* The value of one hexadecimal digit, or -1.
HexDigit(c) ==
    IF \E i \in 1..Len(HexChars) : SubSeq(HexChars, i, i) = c
    THEN LET i == CHOOSE i \in 1..Len(HexChars) : SubSeq(HexChars, i, i) = c
         IN  IF i <= 16 THEN i - 1 ELSE i - 7
    ELSE -1

RECURSIVE HexValue(_, _)
HexValue(s, acc) ==
    IF s = "" THEN acc
    ELSE HexValue(SubSeq(s, 2, Len(s)), acc * 16 + HexDigit(SubSeq(s, 1, 1)))

\* int(s, 16): the value, or None where Python raises ValueError.
Int16(s) ==
    LET body == IF Len(s) >= 2 /\ SubSeq(s, 1, 2) \in {"0x", "0X"}
                THEN SubSeq(s, 3, Len(s)) ELSE s
    IN  IF body = "" \/ \E i \in 1..Len(body) : HexDigit(SubSeq(body, i, i)) = -1
        THEN None
        ELSE Some(HexValue(body, 0))

\* The receipt object the node holds for a mined transaction.
RawReceipt(h, status) ==
    [transactionHash |-> h, blockNumber |-> "0x10", blockHash |-> "0xb10c",
     status |-> status, gasUsed |-> "0x5208", logs |-> <<>>]

\* A response of provider.request: it raised, or it returned a body.
ProviderError == [raised |-> TRUE, body |-> [error |-> "transport"]]
Reply(body) == [raised |-> FALSE, body |-> body]
Rejected == Reply([error |-> "rejected"])

\* Receipts the provider can hand over damaged: a key missing, a quantity
\* that is not hexadecimal.
Damaged(raw) ==
    { [k \in DOMAIN raw \ {"status"} |-> raw[k]],
      [raw EXCEPT !.blockNumber = "0xzz"] }

\* What eth_getTransactionReceipt can answer for h in the current state.
ReceiptResponses(h) ==
    {ProviderError, Rejected}
    \cup {Reply([result |-> IF chain[h] = None THEN None ELSE Some(chain[h][1].raw)])}
    \cup (IF chain[h] = None THEN {}
          ELSE {Reply([result |-> Some(d)]) : d \in Damaged(chain[h][1].raw)})

\* What eth_sendRawTransaction can answer.
SendResponses ==
    {ProviderError, Rejected}
    \cup {Reply([result |-> r]) : r \in {Some(h) : h \in Hashes} \cup {None}}

Request(method, params) == [method |-> method, params |-> params]

\* The node mines the transaction with hash h.
Mine(h, status) ==
    /\ chain[h] = None
    /\ chain' = [chain EXCEPT ![h] = Some([raw |-> RawReceipt(h, status), at |-> now])]
    /\ UNCHANGED <<restVars, txVars, now, waitVars, builderVars, contractVars, ethereumVars>>

----------------------------------------------------------------------------
\* EthereumTransactionManager

PENDING == "pending"
CONFIRMED == "confirmed"
FAILED == "failed"
UNKNOWN == "unknown"

ReceiptKeys == <<"transactionHash", "blockNumber", "blockHash", "status", "gasUsed", "logs">>

\* Python's dict assignment d[k] = v.
DictSet(d, k, v) == [x \in DOMAIN d \cup {k} |-> IF x = k THEN v ELSE d[x]]

\* TransactionReceipt(...) built from the result object, or the error message
\* of the first step that raises.
ParseReceipt(result) ==
    LET missing == {i \in 1..Len(ReceiptKeys) : ReceiptKeys[i] \notin DOMAIN result}
        bad(k) == k \in DOMAIN result /\ Int16(result[k]) = None
        firstMissing == CHOOSE i \in missing : \A j \in missing : i <= j
        \* keyword arguments are evaluated in order: blockNumber is read and
        \* parsed second, gasUsed fifth
        failsAt ==
            IF missing # {} /\ firstMissing <= 2 THEN firstMissing
            ELSE IF bad("blockNumber") THEN 2
            ELSE IF missing # {} /\ firstMissing <= 5 THEN firstMissing
            ELSE IF bad("gasUsed") THEN 5
            ELSE IF missing # {} THEN firstMissing
            ELSE 0
    IN  IF failsAt = 0
        THEN Returned(Some([transaction_hash |-> result.transactionHash,
                            block_number |-> Int16(result.blockNumber)[1],
                            block_hash |-> result.blockHash,
                            status |-> (result.status = "0x1"),
                            gas_used |-> Int16(result.gasUsed)[1],
                            logs |-> result.logs]))
        ELSE Raised(Raise("Exception",
                 <<"Failed to get receipt: ",
                   IF ReceiptKeys[failsAt] \in DOMAIN result
                   THEN "invalid literal for int() with base 16"
                   ELSE ReceiptKeys[failsAt]>>))

\* get_receipt(tx_hash), given the provider's response.
GetReceipt(resp) ==
    IF resp.raised
    THEN Raised(Raise("Exception", <<"Failed to get receipt: ", resp.body.error>>))
    ELSE IF "result" \notin DOMAIN resp.body
    THEN Raised(Raise("Exception", <<"Failed to get receipt: ", "result">>))
    ELSE IF resp.body.result = None
    THEN Returned(None)
    ELSE ParseReceipt(resp.body.result[1])

\* get_status that reads the success flag the wrong way round.
GetStatusSwapped(resp) ==
    LET rc == GetReceipt(resp)
    IN  IF rc.exc # None THEN Returned(Some(UNKNOWN))
        ELSE IF rc.val = None THEN Returned(Some(PENDING))
        ELSE IF rc.val[1].status THEN Returned(Some(FAILED))
        ELSE Returned(Some(CONFIRMED))

\* get_status without the try/except around the receipt query.
GetStatusNoCatch(resp) ==
    LET rc == GetReceipt(resp)
    IN  IF rc.exc # None THEN rc
        ELSE IF rc.val = None THEN Returned(Some(PENDING))
        ELSE IF rc.val[1].status THEN Returned(Some(CONFIRMED))
        ELSE Returned(Some(FAILED))

\* get_status(tx_hash), given the provider's response to its receipt query.
GetStatus(resp) ==
    LET rc == GetReceipt(resp)
    IN  IF rc.exc # None THEN Returned(Some(UNKNOWN))
        ELSE IF rc.val = None THEN Returned(Some(PENDING))
        ELSE IF rc.val[1].status THEN Returned(Some(CONFIRMED))
        ELSE Returned(Some(FAILED))

\* broadcast that submits before it checks that the transaction is signed.
BroadcastTxSendFirst(tx, resp) ==
    LET ser == SerializeTx(tx)
        fail(reqs, inner) ==
            [out |-> Raised(Raise("Exception", <<"Failed to broadcast transaction: ", inner>>)),
             reqs |-> reqs, insert |-> None]
        sent == <<Request("eth_sendRawTransaction", <<SerializedTx>>)>>
    IN  IF resp.raised THEN fail(sent, resp.body.error)
        ELSE IF ser.exc # None THEN fail(sent, ser.exc[1].msg[1])
        ELSE IF "result" \notin DOMAIN resp.body THEN fail(sent, "result")
        ELSE [out |-> Returned(resp.body.result), reqs |-> sent,
              insert |-> Some(resp.body.result)]

\* broadcast that records the transaction as pending before the node answers.
BroadcastTxInsertFirst(tx, resp) ==
    LET ser == SerializeTx(tx)
        fail(reqs, inner, ins) ==
            [out |-> Raised(Raise("Exception", <<"Failed to broadcast transaction: ", inner>>)),
             reqs |-> reqs, insert |-> ins]
        sent == <<Request("eth_sendRawTransaction", <<ser.val[1]>>)>>
    IN  IF ser.exc # None THEN fail(<<>>, ser.exc[1].msg[1], None)
        ELSE IF resp.raised THEN fail(sent, resp.body.error, Some(tx.hash))
        ELSE IF "result" \notin DOMAIN resp.body THEN fail(sent, "result", Some(tx.hash))
        ELSE [out |-> Returned(resp.body.result), reqs |-> sent,
              insert |-> Some(resp.body.result)]

\* broadcast(transaction), given the provider's response: the outcome, the
\* requests sent, and the key inserted into the pending map (if any).
BroadcastTx(tx, resp) ==
    LET ser == SerializeTx(tx)
        fail(reqs, inner) ==
            [out |-> Raised(Raise("Exception", <<"Failed to broadcast transaction: ", inner>>)),
             reqs |-> reqs, insert |-> None]
        sent == <<Request("eth_sendRawTransaction", <<ser.val[1]>>)>>
    IN  IF ser.exc # None THEN fail(<<>>, ser.exc[1].msg[1])
        ELSE IF resp.raised THEN fail(sent, resp.body.error)
        ELSE IF "result" \notin DOMAIN resp.body THEN fail(sent, "result")
        ELSE [out |-> Returned(resp.body.result), reqs |-> sent,
              insert |-> Some(resp.body.result)]

Broadcast(t) ==
    \E resp \in SendResponses :
        LET b == BroadcastTx(txs[t], resp)
        IN  /\ Len(requests) + Len(b.reqs) <= MaxRequests
            /\ requests' = requests \o b.reqs
            /\ reply' = IF b.reqs = <<>> THEN reply ELSE Some(resp)
            /\ pending' = IF b.insert = None THEN pending
                          ELSE DictSet(pending, b.insert[1], t)
            /\ ret' = Call("broadcast", t, b.out)
            /\ UNCHANGED <<restVars, txs, chain, now, waitVars, builderVars, contractVars, ethereumVars>>

GetReceiptCall(h) ==
    /\ Len(requests) < MaxRequests
    /\ \E resp \in ReceiptResponses(h) :
        /\ requests' = Append(requests, Request("eth_getTransactionReceipt", <<h>>))
        /\ reply' = Some(resp)
        /\ ret' = Call("get_receipt", h, GetReceipt(resp))
    /\ UNCHANGED <<restVars, txs, pending, chain, now, waitVars, builderVars, contractVars, ethereumVars>>

\* get_status that drops the pending entry of a transaction found mined.
GetStatusCallPruning(h) ==
    /\ Len(requests) < MaxRequests
    /\ \E resp \in ReceiptResponses(h) :
        /\ requests' = Append(requests, Request("eth_getTransactionReceipt", <<h>>))
        /\ reply' = Some(resp)
        /\ ret' = Call("get_status", h, GetStatus(resp))
        /\ pending' = IF GetStatus(resp).val \in {Some(CONFIRMED), Some(FAILED)}
                      THEN [k \in DOMAIN pending \ {Some(h)} |-> pending[k]]
                      ELSE pending
    /\ UNCHANGED <<restVars, txs, chain, now, waitVars, builderVars, contractVars, ethereumVars>>

GetStatusCall(h) ==
    /\ Len(requests) < MaxRequests
    /\ \E resp \in ReceiptResponses(h) :
        /\ requests' = Append(requests, Request("eth_getTransactionReceipt", <<h>>))
        /\ reply' = Some(resp)
        /\ ret' = Call("get_status", h, GetStatus(resp))
    /\ UNCHANGED <<restVars, txs, pending, chain, now, waitVars, builderVars, contractVars, ethereumVars>>

----------------------------------------------------------------------------
\* EthereumTransactionManager.wait_for_receipt

\* With poll_interval = 0 and requests that take no time the loop never ends;
\* the model follows it for this many polls.
MaxPolls == MaxTimeout + 1

Polls == Len(SelectSeq(wTrace, LAMBDA e : e.ev = "get_receipt"))
Sleeps == Len(SelectSeq(wTrace, LAMBDA e : e.ev = "sleep"))

\* A loop condition that lets the loop run once more at the deadline.
WfrContinueLate(clock, start, timeout) == clock - start <= timeout

\* A loop condition that counts iterations instead of reading the clock.
WfrContinueCount(clock, start, timeout) == Polls * wArgs.poll_interval < timeout

\* The loop condition: time.time() - start_time < timeout.
WfrContinue(clock, start, timeout) == clock - start < timeout

TimedOut(h, timeout) ==
    Raise("TimeoutError", <<"Transaction ", h, " not mined within ", timeout, " seconds">>)

\* Time passes before wait_for_receipt is called.
Elapse ==
    /\ wpc = "idle"
    /\ now < MaxStart
    /\ now' = now + 1
    /\ UNCHANGED <<restVars, txVars, chain, waitVars, builderVars, contractVars, ethereumVars>>

\* wait_for_receipt(tx_hash, timeout, poll_interval) is called: start_time = time.time().
WfrCall(h, timeout, poll_interval) ==
    /\ wpc = "idle"
    /\ wArgs' = [tx_hash |-> h, timeout |-> timeout, poll_interval |-> poll_interval]
    /\ wStart' = now
    /\ wpc' = "check"
    /\ UNCHANGED <<restVars, txVars, chain, now, wReceipt, wWake, wTrace, wResult, builderVars, contractVars, ethereumVars>>

\* while time.time() - start_time < timeout: ... else raise TimeoutError.
WfrCheck ==
    /\ wpc = "check"
    /\ IF WfrContinue(now, wStart, wArgs.timeout)
       THEN /\ wpc' = "poll"
            /\ UNCHANGED wResult
       ELSE /\ wpc' = "timeout"
            /\ wResult' = Raised(TimedOut(wArgs.tx_hash, wArgs.timeout))
    /\ UNCHANGED <<restVars, txVars, chain, now, wArgs, wStart, wReceipt, wWake, wTrace, builderVars, contractVars, ethereumVars>>

\* A poll that treats an exception of get_receipt like an absent receipt and
\* goes on to sleep.
WfrPollRetrying ==
    /\ wpc = "poll"
    /\ Polls < MaxPolls
    /\ \E resp \in ReceiptResponses(wArgs.tx_hash), d \in 0..MaxPollTime :
        LET rc == GetReceipt(resp)
        IN  /\ requests' = Append(requests, Request("eth_getTransactionReceipt", <<wArgs.tx_hash>>))
            /\ reply' = Some(resp)
            /\ now' = now + d
            /\ wTrace' = Append(wTrace, [ev |-> "get_receipt", dur |-> d])
            /\ wpc' = "test"
            /\ wReceipt' = IF rc.exc # None THEN None ELSE rc.val
            /\ UNCHANGED wResult
    /\ UNCHANGED <<restVars, txs, pending, ret, chain, wArgs, wStart, wWake, builderVars, contractVars, ethereumVars>>

\* receipt = self.get_receipt(tx_hash); the request takes d time units and an
\* exception of get_receipt leaves wait_for_receipt.
WfrPoll ==
    /\ wpc = "poll"
    /\ Polls < MaxPolls
    /\ \E resp \in ReceiptResponses(wArgs.tx_hash), d \in 0..MaxPollTime :
        LET rc == GetReceipt(resp)
        IN  /\ requests' = Append(requests, Request("eth_getTransactionReceipt", <<wArgs.tx_hash>>))
            /\ reply' = Some(resp)
            /\ now' = now + d
            /\ wTrace' = Append(wTrace, [ev |-> "get_receipt", dur |-> d])
            /\ IF rc.exc # None
               THEN /\ wpc' = "error"
                    /\ wResult' = rc
                    /\ UNCHANGED wReceipt
               ELSE /\ wpc' = "test"
                    /\ wReceipt' = rc.val
                    /\ UNCHANGED wResult
    /\ UNCHANGED <<restVars, txs, pending, ret, chain, wArgs, wStart, wWake, builderVars, contractVars, ethereumVars>>

\* A loop that sleeps after every poll, whatever the poll found.
WfrTestNoReturn ==
    /\ wpc = "test"
    /\ wpc' = "sleep"
    /\ UNCHANGED <<restVars, txVars, chain, now, wArgs, wStart, wReceipt, wWake, wTrace, wResult, builderVars, contractVars, ethereumVars>>

\* if receipt is not None: return receipt
WfrTest ==
    /\ wpc = "test"
    /\ IF wReceipt # None
       THEN /\ wpc' = "returned"
            /\ wResult' = Returned(wReceipt)
       ELSE /\ wpc' = "sleep"
            /\ UNCHANGED wResult
    /\ UNCHANGED <<restVars, txVars, chain, now, wArgs, wStart, wReceipt, wWake, wTrace, builderVars, contractVars, ethereumVars>>

\* time.sleep(poll_interval) begins.
WfrSleep ==
    /\ wpc = "sleep"
    /\ wWake' = now + wArgs.poll_interval
    /\ wTrace' = Append(wTrace, [ev |-> "sleep", dur |-> wArgs.poll_interval])
    /\ wpc' = "sleeping"
    /\ UNCHANGED <<restVars, txVars, chain, now, wArgs, wStart, wReceipt, wResult, builderVars, contractVars, ethereumVars>>

\* The clock advances while the caller sleeps.
Tick ==
    /\ wpc = "sleeping"
    /\ now < wWake
    /\ now' = now + 1
    /\ UNCHANGED <<restVars, txVars, chain, waitVars, builderVars, contractVars, ethereumVars>>

\* time.sleep returns and the loop condition is evaluated again.
WfrWake ==
    /\ wpc = "sleeping"
    /\ now >= wWake
    /\ wpc' = "check"
    /\ UNCHANGED <<restVars, txVars, chain, now, wArgs, wStart, wReceipt, wWake, wTrace, wResult, builderVars, contractVars, ethereumVars>>

----------------------------------------------------------------------------
\* TransactionBuilder and EthereumTransactionBuilder

MaxCalls == 4       \* methods called on the builder in one run

BuilderId == "builder"

\* The arguments the run passes to the setters (prices in gwei).
Addresses == {"0x1234567890123456789012345678901234567890"}
Amounts == {1}
Payloads == {"hello"}
Fees == {3}
Nonces == {0}
GasPrices == {20}
GasLimits == {21000}
MaxFees == {30}
MaxPriorityFees == {2}

LEGACY == 0
EIP1559 == 2

\* TransactionBuilder.__init__ followed by EthereumTransactionBuilder.__init__
NewBuilder(chain_id) ==
    [chain_id |-> chain_id, to |-> None, value |-> 0, data |-> None,
     fee |-> None, nonce |-> None,
     gas_price |-> None, gas_limit |-> None,
     max_fee_per_gas |-> None, max_priority_fee_per_gas |-> None,
     type |-> LEGACY]

to(b, address) == [b EXCEPT !.to = Some(address)]
value(b, amount) == [b EXCEPT !.value = amount]
data(b, payload) == [b EXCEPT !.data = Some(payload)]
fee(b, amount) == [b EXCEPT !.fee = Some(amount)]
nonce(b, n) == [b EXCEPT !.nonce = Some(n)]
gas_price(b, price) == [b EXCEPT !.gas_price = Some(price)]

\* gas_limit() that starts the fee settings afresh.
gas_limit_reset(b, limit) ==
    [b EXCEPT !.gas_limit = Some(limit), !.gas_price = None]

gas_limit(b, limit) == [b EXCEPT !.gas_limit = Some(limit)]

eip1559_fee(b, max_fee, max_priority_fee) ==
    [b EXCEPT !.type = EIP1559,
              !.max_fee_per_gas = Some(max_fee),
              !.max_priority_fee_per_gas = Some(max_priority_fee)]

\* EthereumTransaction.__init__: data defaults to empty bytes (data or b''),
\* the signature fields and the hash start absent.
EthereumTransaction(to_, value_, gas_price_, gas_limit_, data_, nonce_, chain_id) ==
    [to |-> to_, value |-> value_, gas_price |-> gas_price_, gas_limit |-> gas_limit_,
     data |-> IF data_ = None \/ data_ = Some("") THEN Some("") ELSE data_,
     nonce |-> nonce_, chain_id |-> chain_id,
     v |-> None, r |-> None, s |-> None, hash |-> None]

NoRecipient == Raise("ValueError", <<"Recipient address (to) is required">>)
NoGasPrice == Raise("ValueError", <<"Gas price is required for legacy transactions">>)

\* build() that leaves the recipient to be filled in later.
buildUnchecked(b) ==
    IF b.type = LEGACY /\ b.gas_price = None THEN Raised(NoGasPrice)
    ELSE Returned(Some(EthereumTransaction(b.to, b.value, b.gas_price, b.gas_limit,
                                           b.data, b.nonce, b.chain_id)))

\* build(): both branches construct the same legacy EthereumTransaction.
build(b) ==
    IF b.to = None THEN Raised(NoRecipient)
    ELSE IF b.type = LEGACY
    THEN IF b.gas_price = None THEN Raised(NoGasPrice)
         ELSE Returned(Some(EthereumTransaction(b.to, b.value, b.gas_price, b.gas_limit,
                                                b.data, b.nonce, b.chain_id)))
    ELSE Returned(Some(EthereumTransaction(b.to, b.value, b.gas_price, b.gas_limit,
                                           b.data, b.nonce, b.chain_id)))

\* A setter call: the builder it leaves, and the builder itself returned.
Setter(name, b) ==
    /\ Len(bCalls) < MaxCalls
    /\ builder' = b
    /\ bCalls' = Append(bCalls, name)
    /\ ret' = Call(name, BuilderId, Returned(Some(BuilderId)))
    /\ UNCHANGED <<restVars, txs, pending, requests, reply, chain, now, waitVars, contractVars, ethereumVars>>

To(address) == Setter("to", to(builder, address))
Value(amount) == Setter("value", value(builder, amount))
Data(payload) == Setter("data", data(builder, payload))
Fee(amount) == Setter("fee", fee(builder, amount))
Nonce(n) == Setter("nonce", nonce(builder, n))
GasPrice(price) == Setter("gas_price", gas_price(builder, price))
GasLimit(limit) == Setter("gas_limit", gas_limit(builder, limit))
Eip1559Fee(max_fee, max_priority_fee) ==
    Setter("eip1559_fee", eip1559_fee(builder, max_fee, max_priority_fee))

Build ==
    /\ Len(bCalls) < MaxCalls
    /\ bCalls' = Append(bCalls, "build")
    /\ ret' = Call("build", BuilderId, build(builder))
    /\ UNCHANGED <<restVars, txs, pending, requests, reply, chain, now, waitVars, builder, contractVars, ethereumVars>>

BuilderNext ==
    \/ \E address \in Addresses : To(address)
    \/ \E amount \in Amounts : Value(amount)
    \/ \E payload \in Payloads : Data(payload)
    \/ \E amount \in Fees : Fee(amount)
    \/ \E n \in Nonces : Nonce(n)
    \/ \E price \in GasPrices : GasPrice(price)
    \/ \E limit \in GasLimits : GasLimit(limit)
    \/ \E max_fee \in MaxFees, max_priority_fee \in MaxPriorityFees :
          Eip1559Fee(max_fee, max_priority_fee)
    \/ Build

----------------------------------------------------------------------------
\* Ethereum: the networks and get_chain_id

\* Ethereum.NETWORKS
NETWORKS == [mainnet |-> 1, ropsten |-> 3, rinkeby |-> 4, goerli |-> 5, sepolia |-> 11155111]

DefaultNetwork == "mainnet"

\* What eth_chainId can answer.
ChainIdResponses ==
    {ProviderError, Rejected} \cup {Reply([result |-> Some(r)]) : r \in {"0x1", "0x5"}}

ChainIdFailed(inner) == Raise("Exception", <<"Failed to get chain ID: ", inner>>)

\* Ethereum.get_chain_id after connect(): the outcome and the requests made.
get_chain_id(the_network, resp) ==
    LET sent == <<Request("eth_chainId", <<>>)>>
    IN  IF the_network \in DOMAIN NETWORKS
        THEN [out |-> Returned(Some(NETWORKS[the_network])), reqs |-> <<>>]
        ELSE IF resp.raised
        THEN [out |-> Raised(ChainIdFailed(resp.body.error)), reqs |-> sent]
        ELSE IF "result" \notin DOMAIN resp.body
        THEN [out |-> Raised(ChainIdFailed("'result'")), reqs |-> sent]
        ELSE IF Int16(resp.body.result[1]) = None
        THEN [out |-> Raised(ChainIdFailed("invalid literal for int() with base 16")),
              reqs |-> sent]
        ELSE [out |-> Returned(Int16(resp.body.result[1])), reqs |-> sent]

\* provider.is_connected()
IsConnected(the_provider, the_ws) ==
    IF the_provider = "HttpProvider" THEN TRUE ELSE the_ws # None

\* provider._ws after these requests: WebSocketProvider.request connects first.
AfterRequests(the_provider, the_ws, reqs) ==
    IF the_provider = "WebSocketProvider" /\ reqs # <<>>
    THEN Some("placeholder_websocket_connection")
    ELSE the_ws

\* _connected after "if not self._connected: self.connect()"
Connect(is_connected, the_provider, the_ws) ==
    is_connected \/ IsConnected(the_provider, the_ws)

\* What get_chain_id returns for a network of NETWORKS, which the network of
\* every constructed Ethereum is.
ChainId(the_network) == NETWORKS[the_network]

----------------------------------------------------------------------------
\* Contract, ContractFunctionGroup, ContractFunction and EthereumContract

MaxInvocations == 1     \* provider requests made by contract calls in one run
MaxAbiLen == 2          \* entries in the contract's ABI

ContractAddress == "0xc0ffee254729296a45a3885639ac7e10f9d54979"

\* Python's str.join
RECURSIVE Join(_, _)
Join(sep, parts) ==
    IF parts = <<>> THEN ""
    ELSE IF Len(parts) = 1 THEN parts[1]
    ELSE parts[1] \o sep \o Join(sep, Tail(parts))

\* The functions the run's ABIs declare, with their parameters and outputs.
FunctionNames == {"balanceOf", "transfer"}

InputsOf ==
    [balanceOf |-> <<[name |-> "_owner", type |-> "address"]>>,
     transfer |-> <<[name |-> "to", type |-> "address"],
                    [name |-> "value", type |-> "uint256"]>>,
     approve |-> <<[name |-> "_spender", type |-> "address"],
                   [name |-> "_value", type |-> "uint256"]>>]

OutputsOf ==
    [balanceOf |-> <<[name |-> "balance", type |-> "uint256"]>>,
     transfer |-> <<[name |-> "", type |-> "bool"]>>,
     approve |-> <<[name |-> "", type |-> "bool"]>>]

\* The ways an ABI entry states (or does not state) its mutability.
Markers == {"constant", "view", "pure", "nonpayable", "none"}

AbiFunction(name, marker) ==
    LET base == [type |-> "function", name |-> name,
                 inputs |-> InputsOf[name], outputs |-> OutputsOf[name]]
        with(k, v) == [x \in DOMAIN base \cup {k} |-> IF x = k THEN v ELSE base[x]]
    IN  IF marker = "constant" THEN with("constant", TRUE)
        ELSE IF marker = "none" THEN base
        ELSE with("stateMutability", marker)

AbiEvent(name) == [type |-> "event", name |-> name, inputs |-> <<>>]

AbiEntries ==
    {AbiFunction(name, marker) : name \in FunctionNames, marker \in Markers}
    \cup {AbiEvent("transfer")}

\* The ABIs a contract of the run can be constructed with.
Abis == UNION {[1..n -> AbiEntries] : n \in 0..MaxAbiLen}

\* Those among them that the run calls functions of: a token's view and
\* nonpayable functions, the same marked the legacy way, and an overloaded
\* name.
CallAbis ==
    {<<AbiFunction("balanceOf", "view"), AbiFunction("transfer", "nonpayable")>>,
     <<AbiFunction("balanceOf", "constant"), AbiFunction("transfer", "none")>>,
     <<AbiFunction("transfer", "pure"), AbiFunction("transfer", "nonpayable")>>}

\* An ABI whose function has parameter names that are no transaction options.
ApproveAbi == <<AbiFunction("approve", "nonpayable")>>

\* The names the run calls.
CallNames == FunctionNames \cup {"approve"}

\* The names looked up on contract.read and contract.write.
LookupNames == FunctionNames \cup {"decimals"}

Groups == {"read", "write"}

\* ContractFunction.__init__
ContractFunction(name, inputs, outputs, constant) ==
    [name |-> name, inputs |-> inputs, outputs |-> outputs, constant |-> constant]

\* item.get(key, default)
Get(item, key, default) == IF key \in DOMAIN item THEN item[key] ELSE default

\* item.get("type") == "function" and item.get("name") == name
IsFunctionNamed(item, name) ==
    Get(item, "type", "") = "function" /\ Get(item, "name", "") = name

\* item.get("constant", False) or item.get("stateMutability") in ["view", "pure"]
is_constant(item) ==
    Get(item, "constant", FALSE) \/ Get(item, "stateMutability", "") \in {"view", "pure"}

NoFunction(name) == Raise("AttributeError", <<"Contract has no function '", name, "'">>)

\* The least element of a non-empty set of positions.
First(S) == CHOOSE i \in S : \A j \in S : i <= j

\* An object as constructed when n objects of its class exist: its fields and
\* its identity.
New(fields, n) ==
    [k \in DOMAIN fields \cup {"id"} |-> IF k = "id" THEN n + 1 ELSE fields[k]]

\* __getattr__ that hands out the function whichever group it belongs to.
GetAttrAnyGroup(fs, the_abi, is_write, name) ==
    LET hits == {i \in 1..Len(the_abi) : IsFunctionNamed(the_abi[i], name)}
    IN  IF name \in DOMAIN fs THEN [out |-> Returned(Some(fs[name])), fs |-> fs, made |-> 0]
        ELSE IF hits = {} THEN [out |-> Raised(NoFunction(name)), fs |-> fs, made |-> 0]
        ELSE LET item == the_abi[First(hits)]
                 function == New(ContractFunction(name, Get(item, "inputs", <<>>),
                                                  Get(item, "outputs", <<>>), is_constant(item)),
                                 allocated)
             IN  [out |-> Returned(Some(function)), fs |-> DictSet(fs, name, function),
                  made |-> 1]

\* __getattr__ that constructs the function anew on every lookup.
GetAttrUncached(fs, the_abi, is_write, name) ==
    LET hits == {i \in 1..Len(the_abi) :
                    /\ IsFunctionNamed(the_abi[i], name)
                    /\ is_constant(the_abi[i]) # is_write}
    IN  IF hits = {} THEN [out |-> Raised(NoFunction(name)), fs |-> fs, made |-> 0]
        ELSE LET item == the_abi[First(hits)]
                 function == New(ContractFunction(name, Get(item, "inputs", <<>>),
                                                  Get(item, "outputs", <<>>), is_constant(item)),
                                 allocated)
             IN  [out |-> Returned(Some(function)),
                  fs |-> IF name \in DOMAIN fs THEN fs ELSE DictSet(fs, name, function),
                  made |-> 1]

\* ContractFunctionGroup.__getattr__: the function returned or the error
\* raised, the group's _functions afterwards, and the number of
\* ContractFunction objects constructed.
GetAttr(fs, the_abi, is_write, name) ==
    LET hits == {i \in 1..Len(the_abi) :
                    /\ IsFunctionNamed(the_abi[i], name)
                    /\ is_constant(the_abi[i]) # is_write}
    IN  IF name \in DOMAIN fs THEN [out |-> Returned(Some(fs[name])), fs |-> fs, made |-> 0]
        ELSE IF hits = {} THEN [out |-> Raised(NoFunction(name)), fs |-> fs, made |-> 0]
        ELSE LET item == the_abi[First(hits)]
                 function == New(ContractFunction(name, Get(item, "inputs", <<>>),
                                                  Get(item, "outputs", <<>>), is_constant(item)),
                                 allocated)
             IN  [out |-> Returned(Some(function)), fs |-> DictSet(fs, name, function),
                  made |-> 1]

\* The arguments the run passes: a prefix of these positional values, and
\* under each keyword its own value.
ArgValues == <<"0xa11ce", "0xb0b">>
Positionals == {SubSeq(ArgValues, 1, n) : n \in 0..Len(ArgValues)}
KwValue ==
    [_owner |-> "0x0e", to |-> "0x70", value |-> "5", _spender |-> "0x5e", _value |-> "7",
     gas |-> 21000, gas_price |-> 20, nonce |-> 0]
KeywordSets ==
    {{}, {"_owner"}, {"to"}, {"value"}, {"to", "value"},
     {"gas_price"}, {"gas_price", "value"}, {"gas_price", "nonce"}, {"gas", "gas_price"}}
Keywords == {[k \in S |-> KwValue[k]] : S \in KeywordSets}

\* The keyword arguments passed to approve.
ApproveKeywords ==
    {[k \in S |-> KwValue[k]] :
        S \in {{}, {"_spender"}, {"_value"}, {"_spender", "_value"}, {"gas_price"},
               {"_value", "gas_price"}}}

OptionKeys == {"gas", "gas_price", "value", "nonce"}

Restrict(d, keys) == [k \in DOMAIN d \cap keys |-> d[k]]

TooMany == Raise("ValueError", <<"Too many arguments provided">>)
Both(name) ==
    Raise("ValueError", <<"Argument '", name, "' provided as both positional and keyword argument">>)
MissingArgs(names) ==
    Raise("ValueError", <<"Missing required arguments: ", Join(", ", names)>>)

\* The keyword arguments that name a parameter, in ABI order from position i.
RECURSIVE NamedArgs(_, _, _)
NamedArgs(inputs, kw, i) ==
    IF i > Len(inputs) THEN <<>>
    ELSE (IF inputs[i].name \in DOMAIN kw THEN <<kw[inputs[i].name]>> ELSE <<>>)
         \o NamedArgs(inputs, kw, i + 1)

\* ContractFunction.__call__ up to the dispatch: the transaction options
\* taken out of the keywords, then the combined argument list or the error.
Bind(function, args, kwargs) ==
    LET tx_options == Restrict(kwargs, OptionKeys)
        kw == Restrict(kwargs, DOMAIN kwargs \ OptionKeys)
        inputs == function.inputs
        clash == {i \in 1..Len(inputs) : inputs[i].name \in DOMAIN kw /\ i <= Len(args)}
        combined == args \o NamedArgs(inputs, kw, 1)
        missing == [i \in 1..(Len(inputs) - Len(combined)) |-> inputs[Len(combined) + i].name]
        failed(e) == [exc |-> e, args |-> <<>>, tx_options |-> tx_options]
    IN  IF Len(args) + Cardinality(DOMAIN kw) > Len(inputs) THEN failed(TooMany)
        ELSE IF clash # {} THEN failed(Both(inputs[First(clash)].name))
        ELSE IF Len(combined) < Len(inputs) THEN failed(MissingArgs(missing))
        ELSE [exc |-> None, args |-> combined, tx_options |-> tx_options]

\* The first ABI entry that is a function of this name, as a set of at most
\* one position.
FunctionAbi(the_abi, name) ==
    LET hits == {i \in 1..Len(the_abi) : IsFunctionNamed(the_abi[i], name)}
    IN  IF hits = {} THEN {} ELSE {First(hits)}

NotInAbi(name) == Raise("ValueError", <<"Function ", name, " not found in ABI">>)

\* function_selector + "".join(encoded_args)
CallData(item, name, args) ==
    LET input_types == [i \in 1..Len(Get(item, "inputs", <<>>)) |->
                            Get(Get(item, "inputs", <<>>)[i], "type", "")]
    IN  name \o "(" \o Join(",", input_types) \o ")" \o Join("", args)

\* Python values a call returns.
PyInt(n) == [int |-> n]
PyStr(s) == [str |-> s]
PyBool(b) == [bool |-> b]
PyTuple(t) == [tuple |-> t]

StartsWith(s, prefix) == Len(s) >= Len(prefix) /\ SubSeq(s, 1, Len(prefix)) = prefix

\* str.rjust(width, fill)
RJust(s, width, fill) == StrRepeat(fill, IF Len(s) >= width THEN 0 ELSE width - Len(s)) \o s

\* The decoding of response["result"] by the function's outputs.
Decode(result, outputs) ==
    IF outputs = <<>> THEN Returned(None)
    ELSE IF Len(outputs) = 1
    THEN LET output_type == outputs[1].type
         IN  IF StartsWith(output_type, "uint")
             THEN IF result = None THEN Raised(Raise("TypeError", <<"int() can't convert non-string">>))
                  ELSE IF result[1] = "0x" THEN Returned(Some(PyInt(0)))
                  ELSE IF Int16(result[1]) = None
                  THEN Raised(Raise("ValueError", <<"invalid literal for int() with base 16: ", result[1]>>))
                  ELSE Returned(Some(PyInt(Int16(result[1])[1])))
             ELSE IF output_type = "string"
             THEN Returned(IF result = None THEN None ELSE Some(PyStr(result[1])))
             ELSE IF output_type = "bool"
             THEN Returned(Some(PyBool(result \notin {Some("0x"), Some("0x0")})))
             ELSE IF output_type = "address"
             THEN IF result = None THEN Raised(Raise("TypeError", <<"'NoneType' object is not subscriptable">>))
                  ELSE Returned(Some(PyStr("0x" \o RJust(SubSeq(result[1], 3, Len(result[1])), 40, "0"))))
             ELSE Returned(IF result = None THEN None ELSE Some(PyStr(result[1])))
    ELSE Returned(Some(PyTuple([i \in 1..Len(outputs) |-> result])))

\* What eth_call can answer.
CallResponses ==
    {ProviderError, Rejected}
    \cup {Reply([result |-> r]) : r \in {None, Some("0x"), Some("0x2a"), Some("placeholder_result")}}

CallFailed(name, inner) ==
    Raise("Exception", <<"Failed to call function ", name, ": ", inner>>)

\* EthereumContract._call_function: the outcome and the requests made.
call_function(the_abi, function_name, args, outputs, resp) ==
    LET found == FunctionAbi(the_abi, function_name)
        item == the_abi[First(found)]
        sent == <<Request("eth_call",
                          <<[to |-> ContractAddress, data |-> CallData(item, function_name, args)],
                            "latest">>)>>
        decoded == Decode(resp.body.result, outputs)
    IN  IF found = {} THEN [out |-> Raised(NotInAbi(function_name)), reqs |-> <<>>]
        ELSE IF resp.raised
        THEN [out |-> Raised(CallFailed(function_name, resp.body.error)), reqs |-> sent]
        ELSE IF "result" \notin DOMAIN resp.body
        THEN [out |-> Raised(CallFailed(function_name, "'result'")), reqs |-> sent]
        ELSE IF decoded.exc # None
        THEN [out |-> Raised(CallFailed(function_name, decoded.exc[1].msg[1])), reqs |-> sent]
        ELSE [out |-> decoded, reqs |-> sent]

NoWallet == Raise("ValueError", <<"No wallet set">>)

\* _transact_function that leaves the nonce to the builder's default.
WithOptionsNonceDropped(b, tx_options) ==
    LET b1 == IF "value" \in DOMAIN tx_options THEN value(b, tx_options.value) ELSE b
        b2 == IF "gas" \in DOMAIN tx_options THEN gas_limit(b1, tx_options.gas) ELSE b1
    IN  IF "gas_price" \in DOMAIN tx_options THEN gas_price(b2, tx_options.gas_price) ELSE b2

\* The builder of _transact_function after the options have been applied.
WithOptions(b, tx_options) ==
    LET b1 == IF "value" \in DOMAIN tx_options THEN value(b, tx_options.value) ELSE b
        b2 == IF "gas" \in DOMAIN tx_options THEN gas_limit(b1, tx_options.gas) ELSE b1
        b3 == IF "gas_price" \in DOMAIN tx_options THEN gas_price(b2, tx_options.gas_price) ELSE b2
    IN  IF "nonce" \in DOMAIN tx_options THEN nonce(b3, tx_options.nonce) ELSE b3

\* EthereumContract._transact_function: the outcome, the requests made, the
\* key inserted into the pending map, the transaction built and signed, and
\* whether create_transaction() was reached.
transact_function(the_wallet, the_abi, function_name, args, tx_options, resp) ==
    LET found == FunctionAbi(the_abi, function_name)
        item == the_abi[First(found)]
        tx_builder == WithOptions(
                        data(to(NewBuilder(ChainId(network)), ContractAddress),
                             CallData(item, function_name, args)),
                        tx_options)
        built == build(tx_builder)
        transaction == SignTx(built.val[1])
        sent == BroadcastTx(transaction, resp)
        failed(e, c) == [out |-> Raised(e), reqs |-> <<>>, insert |-> None, tx |-> None,
                         connects |-> c]
    IN  IF the_wallet = None THEN failed(NoWallet, FALSE)
        ELSE IF found = {} THEN failed(NotInAbi(function_name), FALSE)
        ELSE IF built.exc # None THEN failed(built.exc, TRUE)
        ELSE [out |-> sent.out, reqs |-> sent.reqs, insert |-> sent.insert,
              tx |-> Some(transaction), connects |-> TRUE]

\* The key under which the next transaction object of the run is kept.
NewTxId == "tx" \o ToString(Cardinality(DOMAIN txs) + 1)

\* __call__ that submits a transaction whatever the function is.
InvokeAlwaysTransact(function, args, kwargs, resp) ==
    LET b == Bind(function, args, kwargs)
        t == transact_function(wallet, abi, function.name, b.args, b.tx_options, resp)
    IN  IF b.exc # None
        THEN [out |-> Raised(b.exc), reqs |-> <<>>, insert |-> None, tx |-> None,
              connects |-> FALSE, path |-> None, args |-> <<>>, tx_options |-> <<>>]
        ELSE [out |-> t.out, reqs |-> t.reqs, insert |-> t.insert, tx |-> t.tx,
              connects |-> t.connects,
              path |-> Some("_transact_function"), args |-> b.args,
              tx_options |-> b.tx_options]

\* ContractFunction.__call__: the outcome, the requests made, the pending
\* entry and transaction created, and the path taken with its arguments.
Invoke(function, args, kwargs, resp) ==
    LET b == Bind(function, args, kwargs)
        c == call_function(abi, function.name, b.args, function.outputs, resp)
        t == transact_function(wallet, abi, function.name, b.args, b.tx_options, resp)
    IN  IF b.exc # None
        THEN [out |-> Raised(b.exc), reqs |-> <<>>, insert |-> None, tx |-> None,
              connects |-> FALSE, path |-> None, args |-> <<>>, tx_options |-> <<>>]
        ELSE IF function.constant
        THEN [out |-> c.out, reqs |-> c.reqs, insert |-> None, tx |-> None,
              connects |-> FALSE,
              path |-> Some("_call_function"), args |-> b.args, tx_options |-> <<>>]
        ELSE [out |-> t.out, reqs |-> t.reqs, insert |-> t.insert, tx |-> t.tx,
              connects |-> t.connects,
              path |-> Some("_transact_function"), args |-> b.args,
              tx_options |-> b.tx_options]

\* EthereumContract(address, abi, ethereum), before anything is called on it.
NewContract(the_abi) ==
    /\ ret.op = "new"
    /\ abi = <<>>
    /\ abi' = the_abi
    /\ functions' = [read |-> <<>>, write |-> <<>>]
    /\ UNCHANGED <<restVars, txVars, chain, now, waitVars, builderVars, wallet, invocations, ethereumVars>>

\* ethereum.wallet = wallet
SetWallet ==
    /\ wallet = None
    /\ wallet' = Some("wallet")
    /\ UNCHANGED <<restVars, txVars, chain, now, waitVars, builderVars, abi, functions, invocations, ethereumVars>>

\* contract.read.<name> or contract.write.<name>
Lookup(group, name) ==
    LET g == GetAttr(functions[group], abi, group = "write", name)
    IN  /\ functions' = [functions EXCEPT ![group] = g.fs]
        /\ allocated' = allocated + g.made
        /\ ret' = Call("getattr", [group |-> group, name |-> name], g.out)
        /\ UNCHANGED <<restVars, txs, pending, requests, reply, chain, now, waitVars, builderVars,
                       abi, wallet, invocations, networkVars, ethCalls, trace>>

\* contract.read.<name>(*args, **kwargs) or contract.write.<name>(...): the
\* call of the function object the lookup has just returned.
CallFunction(group, name, args, kwargs) ==
    /\ ret.op = "getattr"
    /\ ret.exc = None
    /\ ret.target = [group |-> group, name |-> name]
    /\ name \in DOMAIN functions[group]
    /\ Len(invocations) < MaxInvocations
    /\ LET function == functions[group][name]
       IN  \E resp \in (IF function.constant THEN CallResponses ELSE SendResponses) :
             LET i == Invoke(function, args, kwargs, resp)
             IN  /\ requests' = requests \o i.reqs
                 /\ reply' = IF i.reqs = <<>> THEN reply ELSE Some(resp)
                 /\ txs' = IF i.tx = None THEN txs ELSE DictSet(txs, NewTxId, i.tx[1])
                 /\ pending' = IF i.insert = None THEN pending
                               ELSE DictSet(pending, i.insert[1], NewTxId)
                 /\ connected' = IF i.connects THEN Connect(connected, provider, ws)
                                 ELSE connected
                 /\ ws' = AfterRequests(provider, ws, i.reqs)
                 /\ ret' = Call("call", [group |-> group, name |-> name], i.out)
                 /\ invocations' = Append(invocations,
                        [function |-> function, positional |-> Len(args),
                         keywords |-> DOMAIN kwargs, path |-> i.path,
                         args |-> i.args, tx_options |-> i.tx_options])
    /\ UNCHANGED <<restVars, chain, now, waitVars, builderVars, abi, functions, wallet,
                   allocated, provider, subscriptions, network, ethCalls, trace>>

LookupNext ==
    \/ \E the_abi \in Abis : NewContract(the_abi)
    \/ \E group \in Groups, name \in LookupNames : Lookup(group, name)

ContractNext ==
    \/ \E the_abi \in CallAbis : NewContract(the_abi)
    \/ SetWallet
    \/ \E group \in Groups, name \in FunctionNames : Lookup(group, name)
    \/ \E group \in Groups, name \in FunctionNames, args \in Positionals, kwargs \in Keywords :
          CallFunction(group, name, args, kwargs)

BindingNext ==
    \/ NewContract(ApproveAbi)
    \/ SetWallet
    \/ \E group \in Groups : Lookup(group, "approve")
    \/ \E group \in Groups, args \in Positionals, kwargs \in ApproveKeywords :
          CallFunction(group, "approve", args, kwargs)

----------------------------------------------------------------------------
\* utils/validation.py

MaxOff == 1         \* how far the length of a checked string is off an address's

AddressBytes == 20  \* the length of an address in bytes

\* is_hex(value, length)
is_hex(value_, length) ==
    LET v == IF StartsWith(value_, "0x") THEN SubSeq(value_, 3, Len(value_)) ELSE value_
    IN  IF \E i \in 1..Len(v) : HexDigit(SubSeq(v, i, i)) = -1
        THEN FALSE
        ELSE IF length # None THEN Len(v) = length[1] * 2
        ELSE TRUE

\* is_eth_address(address)
is_eth_address(address) ==
    StartsWith(address, "0x") /\ is_hex(SubSeq(address, 3, Len(address)), Some(AddressBytes))

\* The strings checked: a prefix or none, then one character repeated.
Prefixes == {"", "0x", "0X", "0x0x"}
BodyChars == {"a", "F", "7", "g", " "}
CheckedStrings ==
    {pre \o StrRepeat(c, n) :
        pre \in Prefixes, c \in BodyChars,
        n \in {0} \cup (2 * AddressBytes - 2 - MaxOff)..(2 * AddressBytes + MaxOff)}

\* is_hex(value) and is_hex(value, length) are called.
IsHexCall(value_, length) ==
    /\ ret' = Call("is_hex", [value |-> value_, length |-> length],
                   Returned(Some(is_hex(value_, length))))
    /\ UNCHANGED <<restVars, txs, pending, requests, reply, chain, now, waitVars, builderVars,
                   contractVars, ethereumVars>>

\* is_eth_address(address) is called.
IsEthAddressCall(address) ==
    /\ ret' = Call("is_eth_address", address, Returned(Some(is_eth_address(address))))
    /\ UNCHANGED <<restVars, txs, pending, requests, reply, chain, now, waitVars, builderVars,
                   contractVars, ethereumVars>>

ValidationNext ==
    \/ \E value_ \in CheckedStrings, length \in {None, Some(AddressBytes)} : IsHexCall(value_, length)
    \/ \E address \in CheckedStrings : IsEthAddressCall(address)

----------------------------------------------------------------------------
\* Events: EthereumContract.parse_event_log and watch_event

MaxSubId == 2       \* largest subscription id the provider draws

UpperCase == "ABCDEFGHIJKLMNOPQRSTUVWXYZ"
LowerCase == "abcdefghijklmnopqrstuvwxyz"

\* str.lower()
RECURSIVE Lower(_)
Lower(s) ==
    IF s = "" THEN ""
    ELSE LET c == SubSeq(s, 1, 1)
             up == {i \in 1..Len(UpperCase) : SubSeq(UpperCase, i, i) = c}
         IN  (IF up = {} THEN c ELSE SubSeq(LowerCase, First(up), First(up)))
             \o Lower(SubSeq(s, 2, Len(s)))

\* sub in s
Contains(sub, s) ==
    \/ sub = ""
    \/ \E i \in 1..(Len(s) - Len(sub) + 1) : SubSeq(s, i, i + Len(sub) - 1) = sub

EventNames == {"Transfer", "Approval"}

\* The ABIs of the contracts whose logs are parsed and whose events are watched.
EventAbis ==
    {<<>>,
     <<AbiEvent("Transfer")>>,
     <<AbiEvent("Approval"), AbiEvent("Transfer")>>,
     <<AbiFunction("transfer", "nonpayable"), AbiEvent("Approval")>>}

\* The topic lists of the raw logs: none, a foreign event's hash with or
\* without an indexed argument, and topics that carry an event's name.
TopicLists ==
    {<<>>, <<"0xddf252ad">>, <<"0xddf252ad", "0x70">>, <<"0xTRANSFER">>, <<"approval(address)">>}

\* The raw log entries: any of the keys may be missing.
Logs ==
    LET all == {[topics |-> t, blockNumber |-> "0x10", transactionHash |-> OtherHash,
                 logIndex |-> "0x1"] : t \in TopicLists}
    IN  {[k \in keys |-> l[k]] :
            l \in all,
            keys \in {{"topics", "blockNumber", "transactionHash", "logIndex"},
                      {"topics"}, {"blockNumber", "transactionHash", "logIndex"},
                      {"topics", "blockNumber"}}}

NoTopics == Raise("ValueError", <<"Log has no topics">>)

\* EthereumContract.parse_event_log
ParseEventLog(the_abi, log) ==
    LET topics == Get(log, "topics", <<>>)
        hits == {i \in 1..Len(the_abi) :
                    /\ Get(the_abi[i], "type", "") = "event"
                    /\ Contains(Lower(Get(the_abi[i], "name", "")), Lower(topics[1]))}
        blockNumber == Int16(Get(log, "blockNumber", "0x0"))
        logIndex == Int16(Get(log, "logIndex", "0x0"))
        record(event, args) ==
            IF blockNumber = None \/ logIndex = None
            THEN Raised(Raise("ValueError", <<"invalid literal for int() with base 16">>))
            ELSE Returned(Some([event |-> event, args |-> args,
                                blockNumber |-> blockNumber[1],
                                transactionHash |-> Get(log, "transactionHash",
                                                        "0x" \o StrRepeat("0", 64)),
                                logIndex |-> logIndex[1]]))
    IN  IF topics = <<>> THEN Raised(NoTopics)
        ELSE IF hits = {} THEN record("UnknownEvent", <<>>)
        ELSE record(the_abi[First(hits)].name, [arg1 |-> "value1"])

EventNotFound(event_name) == Raise("ValueError", <<"Event ", event_name, " not found in ABI">>)
WatchFailed(inner) == Raise("Exception", <<"Failed to watch events: ", inner>>)

\* provider.subscribe("logs", wrapper_callback) with the id the provider drew:
\* the subscriptions afterwards. The callback is the one made for event_name.
Subscribe(subs, id, event_type, event_name) ==
    DictSet(subs, id, [event_type |-> event_type, callback |-> event_name])

\* watch_event that falls back to polling eth_getLogs when the provider
\* cannot subscribe.
WatchEventPolling(the_abi, the_provider, subs, event_name, id) ==
    LET found == {i \in 1..Len(the_abi) :
                    /\ Get(the_abi[i], "type", "") = "event"
                    /\ Get(the_abi[i], "name", "") = event_name}
    IN  IF found = {}
        THEN [out |-> Raised(EventNotFound(event_name)), subs |-> subs, reqs |-> <<>>]
        ELSE IF the_provider # "WebSocketProvider"
        THEN [out |-> Returned(Some(id)), subs |-> subs,
              reqs |-> <<Request("eth_getLogs",
                                 <<[address |-> ContractAddress, topics |-> <<>>]>>)>>]
        ELSE [out |-> Returned(Some(id)),
              subs |-> Subscribe(subs, id, "logs", event_name), reqs |-> <<>>]

\* EthereumContract.watch_event: the outcome, the provider's subscriptions
\* afterwards and the requests made. hasattr(self.provider, "subscribe")
\* holds for a WebSocketProvider only.
WatchEvent(the_abi, the_provider, subs, event_name, id) ==
    LET found == {i \in 1..Len(the_abi) :
                    /\ Get(the_abi[i], "type", "") = "event"
                    /\ Get(the_abi[i], "name", "") = event_name}
    IN  IF found = {}
        THEN [out |-> Raised(EventNotFound(event_name)), subs |-> subs, reqs |-> <<>>]
        ELSE IF the_provider # "WebSocketProvider"
        THEN [out |-> Raised(WatchFailed("Provider does not support subscriptions")),
              subs |-> subs, reqs |-> <<>>]
        ELSE [out |-> Returned(Some(id)),
              subs |-> Subscribe(subs, id, "logs", event_name), reqs |-> <<>>]

\* The provider_url arguments: none, or a WebSocket endpoint.
DefaultUrl(network_name) == "https://" \o network_name \o ".infura.io/v3/your-project-id"
ProviderUrls == {None, Some("wss://mainnet.infura.io/ws/v3/your-project-id")}

\* The network arguments.
NetworkNames == {"mainnet", "Goerli", "invalid_network"}

UnknownNetwork(network_name) ==
    Raise("ValueError", <<"Unknown Ethereum network: ", network_name>>)

\* Ethereum.__init__: the provider made for the URL.
ProviderFor(provider_url) ==
    IF StartsWith(provider_url, "ws") THEN "WebSocketProvider" ELSE "HttpProvider"

\* Ethereum(provider_url = ..., network = ...) in place of the default
\* Ethereum(), before anything is called on it; with an unknown network no
\* object comes into being.
NewEthereum(provider_url, network_name) ==
    /\ ret.op = "new"
    /\ abi = <<>>
    /\ wallet = None
    /\ IF Lower(network_name) \in DOMAIN NETWORKS
       THEN /\ network' = Lower(network_name)
            /\ provider' = ProviderFor(IF provider_url = None THEN DefaultUrl(network_name)
                                       ELSE provider_url[1])
            /\ subscriptions' = <<>>
            /\ connected' = FALSE
            /\ ws' = None
            /\ ret' = Call("new", network_name, Returned(None))
       ELSE /\ ret' = Call("new", network_name, Raised(UnknownNetwork(network_name)))
            /\ UNCHANGED networkVars
    /\ UNCHANGED <<restVars, txs, pending, requests, reply, chain, now, waitVars, builderVars,
                   contractVars, allocated, ethCalls, trace>>

\* contract.parse_event_log(log)
ParseEventLogCall(log) ==
    /\ ret' = Call("parse_event_log", log, ParseEventLog(abi, log))
    /\ UNCHANGED <<restVars, txs, pending, requests, reply, chain, now, waitVars, builderVars,
                   contractVars, ethereumVars>>

\* contract.watch_event(event_name, callback)
WatchEventCall(event_name) ==
    \E id \in 1..MaxSubId :
        LET w == WatchEvent(abi, provider, subscriptions, event_name, id)
        IN  /\ subscriptions' = w.subs
            /\ requests' = requests \o w.reqs
            /\ ret' = Call("watch_event", event_name, w.out)
            /\ UNCHANGED <<restVars, txs, pending, reply, chain, now, waitVars, builderVars,
                           contractVars, allocated, provider, network, connected, ws,
                           ethCalls, trace>>

----------------------------------------------------------------------------
\* Ethereum (get_balance, send), the manager's create_transaction, get_nonce
\* and estimate_fee, and ERC20Token.transfer

MaxEthCalls == 1    \* calls of send, get_balance and ERC20Token.transfer in one run

\* wallet.get_address_for_chain("ethereum"): "0x" and 40 hexadecimal digits.
WalletAddress == "0x" \o StrRepeat("5a", AddressBytes)

\* The addresses passed: well-formed, too short, and with the prefix doubled.
ValidAddress == "0x1234567890123456789012345678901234567890"
PassedAddresses == {ValidAddress, "invalid_address", "0x0x" \o StrRepeat("7", 2 * AddressBytes)}

\* The amounts passed, all of them ints.
PassedAmounts == {-1, 5}

\* is_valid_amount(amount) for an int
is_valid_amount(amount) == amount >= 0

NoAddress == Raise("ValueError", <<"No address provided and no wallet set">>)
InvalidAddress(address) == Raise("ValueError", <<"Invalid Ethereum address: ", address>>)
InvalidAmount(amount) == Raise("ValueError", <<"Invalid amount: ", ToString(amount)>>)

\* What eth_getBalance and eth_getTransactionCount can answer.
QuantityResponses ==
    {ProviderError, Rejected}
    \cup {Reply([result |-> Some(r)]) : r \in {"0x2a", "placeholder_result"}}

\* int(response["result"], 16) of a request, wrapped on failure.
Quantity(request, resp, context) ==
    LET failed(inner) ==
            [out |-> Raised(Raise("Exception", <<context, inner>>)), reqs |-> <<request>>]
    IN  IF resp.raised THEN failed(resp.body.error)
        ELSE IF "result" \notin DOMAIN resp.body THEN failed("'result'")
        ELSE IF Int16(resp.body.result[1]) = None
        THEN failed("invalid literal for int() with base 16")
        ELSE [out |-> Returned(Int16(resp.body.result[1])), reqs |-> <<request>>]

\* Ethereum.get_balance: the outcome, the requests made and whether connect()
\* was reached.
get_balance(the_wallet, address, resp) ==
    LET a == IF address = None THEN WalletAddress ELSE address[1]
        q == Quantity(Request("eth_getBalance", <<a, "latest">>), resp,
                      "Failed to get balance: ")
        failed(e) == [out |-> Raised(e), reqs |-> <<>>, connects |-> FALSE]
    IN  IF address = None /\ the_wallet = None THEN failed(NoAddress)
        ELSE IF ~is_eth_address(a) THEN failed(InvalidAddress(a))
        ELSE [out |-> q.out, reqs |-> q.reqs, connects |-> TRUE]

\* send that asks the node for the sender's transaction count and numbers the
\* transaction with it.
sendFetchingNonce(the_wallet, the_network, to_, amount, gas_limit_, gas_price_, resp) ==
    LET b0 == nonce(value(to(NewBuilder(ChainId(the_network)), to_), amount), 0)
        b1 == IF gas_limit_ = None THEN b0 ELSE gas_limit(b0, gas_limit_[1])
        b2 == IF gas_price_ = None THEN b1 ELSE gas_price(b1, gas_price_[1])
        built == build(b2)
        transaction == SignTx(built.val[1])
        sent == BroadcastTx(transaction, resp)
        counted == <<Request("eth_getTransactionCount", <<WalletAddress, "latest">>)>>
        steps == <<"create_transaction", "to", "value", "get_nonce", "nonce">>
                 \o (IF gas_limit_ = None THEN <<>> ELSE <<"gas_limit">>)
                 \o (IF gas_price_ = None THEN <<>> ELSE <<"gas_price">>)
                 \o <<"export_private_key", "build">>
        failed(e) == [out |-> Raised(e), reqs |-> <<>>, insert |-> None, tx |-> None,
                      connects |-> FALSE, trace |-> <<>>]
    IN  IF the_wallet = None THEN failed(NoWallet)
        ELSE IF ~is_eth_address(to_) THEN failed(InvalidAddress(to_))
        ELSE IF ~is_valid_amount(amount) THEN failed(InvalidAmount(amount))
        ELSE IF built.exc # None
        THEN [out |-> Raised(built.exc), reqs |-> counted, insert |-> None, tx |-> None,
              connects |-> TRUE, trace |-> steps]
        ELSE [out |-> sent.out, reqs |-> counted \o sent.reqs, insert |-> sent.insert,
              tx |-> Some(transaction), connects |-> TRUE,
              trace |-> steps \o <<"sign", "broadcast">>]

\* Ethereum.send: the outcome, the requests made, the key inserted into the
\* pending map, the transaction built and signed, whether connect() was
\* reached, and what send called, in order.
send(the_wallet, the_network, to_, amount, gas_limit_, gas_price_, resp) ==
    LET b0 == value(to(NewBuilder(ChainId(the_network)), to_), amount)
        b1 == IF gas_limit_ = None THEN b0 ELSE gas_limit(b0, gas_limit_[1])
        b2 == IF gas_price_ = None THEN b1 ELSE gas_price(b1, gas_price_[1])
        built == build(b2)
        transaction == SignTx(built.val[1])
        sent == BroadcastTx(transaction, resp)
        steps == <<"create_transaction", "to", "value">>
                 \o (IF gas_limit_ = None THEN <<>> ELSE <<"gas_limit">>)
                 \o (IF gas_price_ = None THEN <<>> ELSE <<"gas_price">>)
                 \o <<"export_private_key", "build">>
        failed(e) == [out |-> Raised(e), reqs |-> <<>>, insert |-> None, tx |-> None,
                      connects |-> FALSE, trace |-> <<>>]
    IN  IF the_wallet = None THEN failed(NoWallet)
        ELSE IF ~is_eth_address(to_) THEN failed(InvalidAddress(to_))
        ELSE IF ~is_valid_amount(amount) THEN failed(InvalidAmount(amount))
        ELSE IF built.exc # None
        THEN [out |-> Raised(built.exc), reqs |-> <<>>, insert |-> None, tx |-> None,
              connects |-> TRUE, trace |-> steps]
        ELSE [out |-> sent.out, reqs |-> sent.reqs, insert |-> sent.insert,
              tx |-> Some(transaction), connects |-> TRUE,
              trace |-> steps \o <<"sign", "broadcast">>]

\* ERC20_ABI's balanceOf and transfer entries.
Erc20Abi ==
    <<[constant |-> TRUE, inputs |-> <<[name |-> "_owner", type |-> "address"]>>,
       name |-> "balanceOf", outputs |-> <<[name |-> "balance", type |-> "uint256"]>>,
       type |-> "function"],
      [constant |-> FALSE,
       inputs |-> <<[name |-> "_to", type |-> "address"],
                    [name |-> "_value", type |-> "uint256"]>>,
       name |-> "transfer", outputs |-> <<[name |-> "", type |-> "bool"]>>,
       type |-> "function"]>>

\* The keyword arguments ERC20Token.transfer passes on.
TxOptions(gas_limit_, gas_price_) ==
    LET all == [gas |-> gas_limit_, gas_price |-> gas_price_]
    IN  [k \in {x \in DOMAIN all : all[x] # None} |-> all[k][1]]

\* ERC20Token.transfer with an int amount, up to the call it ends with: the
\* error raised, or the arguments of contract.write.transfer(to, amount,
\* **tx_options).
transfer(to_, amount, gas_limit_, gas_price_) ==
    [exc |-> IF is_eth_address(to_) THEN None ELSE InvalidAddress(to_),
     args |-> <<to_, ToString(amount)>>,
     kwargs |-> TxOptions(gas_limit_, gas_price_)]

\* ethereum.get_chain_id()
GetChainIdCall ==
    \E resp \in ChainIdResponses :
        LET c == get_chain_id(network, resp)
        IN  /\ Len(requests) + Len(c.reqs) <= MaxRequests
            /\ connected' = Connect(connected, provider, ws)
            /\ requests' = requests \o c.reqs
            /\ reply' = IF c.reqs = <<>> THEN reply ELSE Some(resp)
            /\ ws' = AfterRequests(provider, ws, c.reqs)
            /\ ret' = Call("get_chain_id", network, c.out)
            /\ UNCHANGED <<restVars, txs, pending, chain, now, waitVars, builderVars, contractVars,
                           allocated, provider, subscriptions, network, ethCalls, trace>>

\* transaction_manager.create_transaction(): a fresh builder for the caller.
CreateTransactionCall ==
    \E resp \in ChainIdResponses :
        LET c == get_chain_id(network, resp)
        IN  /\ Len(requests) + Len(c.reqs) <= MaxRequests
            /\ connected' = Connect(connected, provider, ws)
            /\ requests' = requests \o c.reqs
            /\ reply' = IF c.reqs = <<>> THEN reply ELSE Some(resp)
            /\ ws' = AfterRequests(provider, ws, c.reqs)
            /\ IF c.out.exc # None
               THEN /\ ret' = Call("create_transaction", network, c.out)
                    /\ UNCHANGED builderVars
               ELSE /\ ret' = Call("create_transaction", network, Returned(Some(BuilderId)))
                    /\ builder' = NewBuilder(c.out.val[1])
                    /\ bCalls' = <<>>
            /\ UNCHANGED <<restVars, txs, pending, chain, now, waitVars, contractVars,
                           allocated, provider, subscriptions, network, ethCalls, trace>>

\* transaction_manager.get_nonce(address)
GetNonceCall(address) ==
    /\ Len(requests) < MaxRequests
    /\ \E resp \in QuantityResponses :
        LET q == Quantity(Request("eth_getTransactionCount", <<address, "latest">>), resp,
                          "Failed to get nonce: ")
        IN  /\ requests' = requests \o q.reqs
            /\ reply' = Some(resp)
            /\ ws' = AfterRequests(provider, ws, q.reqs)
            /\ ret' = Call("get_nonce", address, q.out)
    /\ UNCHANGED <<restVars, txs, pending, chain, now, waitVars, builderVars, contractVars,
                   allocated, provider, subscriptions, network, connected, ethCalls, trace>>

\* transaction_manager.estimate_fee(transaction): the placeholder estimate,
\* the gas price in gwei.
EstimateFeeCall(t) ==
    /\ ret' = Call("estimate_fee", t, Returned(Some([gas_price |-> 20, gas_limit |-> 21000])))
    /\ UNCHANGED <<restVars, txs, pending, requests, reply, chain, now, waitVars, builderVars,
                   contractVars, ethereumVars>>

\* ethereum.get_balance(address) and ethereum.get_balance()
GetBalanceCall(address) ==
    /\ ethCalls < MaxEthCalls
    /\ \E resp \in QuantityResponses :
        LET g == get_balance(wallet, address, resp)
        IN  /\ requests' = requests \o g.reqs
            /\ reply' = IF g.reqs = <<>> THEN reply ELSE Some(resp)
            /\ connected' = IF g.connects THEN Connect(connected, provider, ws) ELSE connected
            /\ ws' = AfterRequests(provider, ws, g.reqs)
            /\ ret' = Call("get_balance", address, g.out)
            /\ trace' = <<>>
    /\ ethCalls' = ethCalls + 1
    /\ UNCHANGED <<restVars, txs, pending, chain, now, waitVars, builderVars, contractVars,
                   allocated, provider, subscriptions, network>>

\* What eth_sendRawTransaction answers to send and to a token transfer: a
\* transport failure, or the hash of the transaction.
SubmitResponses == {ProviderError, Reply([result |-> Some(SigHash)])}

\* ethereum.send(to, amount, gas_limit, gas_price)
SendCall(to_, amount, gas_limit_, gas_price_) ==
    /\ ethCalls < MaxEthCalls
    /\ \E resp \in SubmitResponses :
        LET s == send(wallet, network, to_, amount, gas_limit_, gas_price_, resp)
        IN  /\ requests' = requests \o s.reqs
            /\ reply' = IF s.reqs = <<>> THEN reply ELSE Some(resp)
            /\ txs' = IF s.tx = None THEN txs ELSE DictSet(txs, NewTxId, s.tx[1])
            /\ pending' = IF s.insert = None THEN pending
                          ELSE DictSet(pending, s.insert[1], NewTxId)
            /\ connected' = IF s.connects THEN Connect(connected, provider, ws) ELSE connected
            /\ ws' = AfterRequests(provider, ws, s.reqs)
            /\ ret' = Call("send", [wallet |-> wallet, to |-> to_, amount |-> amount,
                                    gas_limit |-> gas_limit_, gas_price |-> gas_price_],
                           s.out)
            /\ trace' = s.trace
    /\ ethCalls' = ethCalls + 1
    /\ UNCHANGED <<restVars, chain, now, waitVars, builderVars, contractVars,
                   allocated, provider, subscriptions, network>>

\* The keyword arguments passed to deploy, and the bytecode.
DeployKeywords ==
    {[k \in S |-> KwValue[k]] :
        S \in {{}, {"gas_price"}, {"gas", "gas_price"}, {"gas_price", "nonce"}}}
Bytecodes == {"0x6080", "0x", ""}

\* EthereumContract.deploy with an ABI given as a list, up to its
\* wait_for_receipt: the outcome, the requests made, the key inserted into the
\* pending map, the transaction built and signed, whether connect() was
\* reached, what deploy called, in order, and the hash it goes on to wait for.
deploy(the_wallet, the_network, bytecode, kwargs, resp) ==
    LET b0 == data(NewBuilder(ChainId(the_network)), bytecode)
        b1 == IF "gas" \in DOMAIN kwargs THEN gas_limit(b0, kwargs.gas) ELSE b0
        b2 == IF "gas_price" \in DOMAIN kwargs THEN gas_price(b1, kwargs.gas_price) ELSE b1
        b3 == IF "nonce" \in DOMAIN kwargs THEN nonce(b2, kwargs.nonce) ELSE b2
        built == build(b3)
        transaction == SignTx(built.val[1])
        sent == BroadcastTx(transaction, resp)
        steps == <<"get_address_for_chain", "create_transaction", "data">>
                 \o (IF "gas" \in DOMAIN kwargs THEN <<"gas_limit">> ELSE <<>>)
                 \o (IF "gas_price" \in DOMAIN kwargs THEN <<"gas_price">> ELSE <<>>)
                 \o (IF "nonce" \in DOMAIN kwargs THEN <<"nonce">> ELSE <<>>)
                 \o <<"export_private_key", "build">>
    IN  IF the_wallet = None
        THEN [out |-> Raised(NoWallet), reqs |-> <<>>, insert |-> None, tx |-> None,
              connects |-> FALSE, trace |-> <<>>, waits |-> None]
        ELSE IF built.exc # None
        THEN [out |-> Raised(built.exc), reqs |-> <<>>, insert |-> None, tx |-> None,
              connects |-> TRUE, trace |-> steps, waits |-> None]
        ELSE IF sent.out.exc # None
        THEN [out |-> sent.out, reqs |-> sent.reqs, insert |-> None, tx |-> Some(transaction),
              connects |-> TRUE, trace |-> steps \o <<"sign", "broadcast">>, waits |-> None]
        ELSE [out |-> Returned(None), reqs |-> sent.reqs, insert |-> sent.insert,
              tx |-> Some(transaction), connects |-> TRUE,
              trace |-> steps \o <<"sign", "broadcast", "wait_for_receipt">>,
              waits |-> sent.out.val]

\* EthereumContract.deploy(abi, bytecode, ethereum, **kwargs), with
\* ethereum.wait_for_receipt(tx_hash) at its defaults where it is reached.
DeployCall(bytecode, kwargs) ==
    /\ wpc = "idle"
    /\ \E resp \in SubmitResponses :
        LET d == deploy(wallet, network, bytecode, kwargs, resp)
        IN  /\ requests' = requests \o d.reqs
            /\ reply' = IF d.reqs = <<>> THEN reply ELSE Some(resp)
            /\ txs' = IF d.tx = None THEN txs ELSE DictSet(txs, NewTxId, d.tx[1])
            /\ pending' = IF d.insert = None THEN pending
                          ELSE DictSet(pending, d.insert[1], NewTxId)
            /\ connected' = IF d.connects THEN Connect(connected, provider, ws) ELSE connected
            /\ ws' = AfterRequests(provider, ws, d.reqs)
            /\ ret' = Call("deploy", [wallet |-> wallet, bytecode |-> bytecode,
                                      keywords |-> DOMAIN kwargs], d.out)
            /\ trace' = d.trace
            /\ IF d.waits = None
               THEN UNCHANGED waitVars
               ELSE /\ wpc' = "check"
                    /\ wArgs' = [tx_hash |-> d.waits[1], timeout |-> 120, poll_interval |-> 1]
                    /\ wStart' = now
                    /\ UNCHANGED <<restVars, wReceipt, wWake, wTrace, wResult>>
    /\ UNCHANGED <<restVars, chain, now, builderVars, contractVars,
                   allocated, provider, subscriptions, network, ethCalls>>

\* token.transfer(to, amount, gas_limit, gas_price): the checks of transfer,
\* then the lookup of write.transfer and the call of what it returns.
TransferCall(to_, amount, gas_limit_, gas_price_) ==
    /\ abi = Erc20Abi
    /\ ethCalls < MaxEthCalls
    /\ LET t == transfer(to_, amount, gas_limit_, gas_price_)
           g == GetAttr(functions.write, abi, TRUE, "transfer")
           target == [to |-> to_, amount |-> amount, gas_limit |-> gas_limit_,
                      gas_price |-> gas_price_]
       IN  IF t.exc # None
           THEN /\ ret' = Call("transfer", target, Raised(t.exc))
                /\ UNCHANGED <<restVars, txs, pending, requests, reply, functions, invocations,
                               allocated, connected, ws>>
           ELSE \E resp \in SubmitResponses :
                  LET i == Invoke(g.out.val[1], t.args, t.kwargs, resp)
                  IN  /\ requests' = requests \o i.reqs
                      /\ reply' = IF i.reqs = <<>> THEN reply ELSE Some(resp)
                      /\ txs' = IF i.tx = None THEN txs ELSE DictSet(txs, NewTxId, i.tx[1])
                      /\ pending' = IF i.insert = None THEN pending
                                    ELSE DictSet(pending, i.insert[1], NewTxId)
                      /\ functions' = [functions EXCEPT !.write = g.fs]
                      /\ allocated' = allocated + g.made
                      /\ invocations' = Append(invocations,
                             [function |-> g.out.val[1], positional |-> Len(t.args),
                              keywords |-> DOMAIN t.kwargs, path |-> i.path,
                              args |-> i.args, tx_options |-> i.tx_options])
                      /\ connected' = IF i.connects THEN Connect(connected, provider, ws)
                                      ELSE connected
                      /\ ws' = AfterRequests(provider, ws, i.reqs)
                      /\ ret' = Call("transfer", target, i.out)
    /\ ethCalls' = ethCalls + 1
    /\ trace' = <<>>
    /\ UNCHANGED <<restVars, chain, now, waitVars, builderVars, abi, wallet,
                   provider, subscriptions, network>>

OptionalGasLimits == {None} \cup {Some(limit) : limit \in GasLimits}
OptionalGasPrices == {None} \cup {Some(price) : price \in GasPrices}

EthereumNext ==
    \/ \E provider_url \in ProviderUrls : NewEthereum(provider_url, DefaultNetwork)
    \/ SetWallet
    \/ NewContract(Erc20Abi)
    \/ \E address \in {None} \cup {Some(a) : a \in PassedAddresses} : GetBalanceCall(address)
    \/ \E to_ \in PassedAddresses, amount \in PassedAmounts,
          gas_limit_ \in OptionalGasLimits, gas_price_ \in OptionalGasPrices :
          SendCall(to_, amount, gas_limit_, gas_price_)
    \/ \E to_ \in PassedAddresses, amount \in PassedAmounts \ {-1},
          gas_limit_ \in OptionalGasLimits, gas_price_ \in OptionalGasPrices :
          TransferCall(to_, amount, gas_limit_, gas_price_)

EventNext ==
    \/ \E provider_url \in ProviderUrls, network_name \in NetworkNames :
          NewEthereum(provider_url, network_name)
    \/ \E the_abi \in EventAbis : NewContract(the_abi)
    \/ \E log \in Logs : ParseEventLogCall(log)
    \/ \E event_name \in EventNames : WatchEventCall(event_name)

----------------------------------------------------------------------------

\* WebSocketProvider: subscribe, unsubscribe, disconnect

MaxSubCalls == 3    \* calls of subscribe, unsubscribe and disconnect in one run

EventTypes == {"logs", "newHeads"}
Callbacks == {"on_log", "on_head"}

\* del self._subscriptions[subscription_id]
DictDel(d, key) == [k \in DOMAIN d \ {key} |-> d[k]]

\* WebSocketProvider.unsubscribe: the value returned and the subscriptions
\* afterwards.
unsubscribe(subs, subscription_id) ==
    IF subscription_id \in DOMAIN subs
    THEN [out |-> Returned(Some(TRUE)), subs |-> DictDel(subs, subscription_id)]
    ELSE [out |-> Returned(Some(FALSE)), subs |-> subs]

\* provider.subscribe(event_type, callback), where random.randint draws id.
SubscribeCall(event_type, callback) ==
    /\ provider = "WebSocketProvider"
    /\ Len(subLog) < MaxSubCalls
    /\ \E id \in 1..MaxSubId :
        /\ subscriptions' = Subscribe(subscriptions, id, event_type, callback)
        /\ subLog' = Append(subLog, [op |-> "subscribe", id |-> id, ok |-> TRUE])
        /\ ret' = Call("subscribe", callback, Returned(Some(id)))
    /\ UNCHANGED <<txs, pending, requests, reply, chain, now, waitVars, builderVars,
                   contractVars, allocated, provider, network, connected, ws, ethCalls,
                   trace, tokenVars, flowVars>>

\* provider.unsubscribe(subscription_id)
UnsubscribeCall(subscription_id) ==
    /\ provider = "WebSocketProvider"
    /\ Len(subLog) < MaxSubCalls
    /\ LET u == unsubscribe(subscriptions, subscription_id)
       IN  /\ subscriptions' = u.subs
           /\ subLog' = Append(subLog, [op |-> "unsubscribe", id |-> subscription_id,
                                        ok |-> u.out.val[1]])
           /\ ret' = Call("unsubscribe", subscription_id, u.out)
    /\ UNCHANGED <<txs, pending, requests, reply, chain, now, waitVars, builderVars,
                   contractVars, allocated, provider, network, connected, ws, ethCalls,
                   trace, tokenVars, flowVars>>

\* provider.disconnect()
DisconnectCall ==
    /\ provider = "WebSocketProvider"
    /\ Len(subLog) < MaxSubCalls
    /\ ws' = None
    /\ subscriptions' = <<>>
    /\ subLog' = Append(subLog, [op |-> "disconnect", id |-> 0, ok |-> TRUE])
    /\ ret' = Call("disconnect", "", Returned(None))
    /\ UNCHANGED <<txs, pending, requests, reply, chain, now, waitVars, builderVars,
                   contractVars, allocated, provider, network, connected, ethCalls,
                   trace, tokenVars, flowVars>>

\* The calls on the provider of an Ethereum made for a WebSocket endpoint.
ProviderNext ==
    \/ \E provider_url \in ProviderUrls \ {None} : NewEthereum(provider_url, DefaultNetwork)
    \/ \E event_type \in EventTypes, callback \in Callbacks : SubscribeCall(event_type, callback)
    \/ \E subscription_id \in 1..MaxSubId : UnsubscribeCall(subscription_id)
    \/ DisconnectCall

----------------------------------------------------------------------------

\* ERC20Token: name, symbol, decimals

MaxAccesses == 3    \* accesses to token.name, token.symbol and token.decimals in one run

\* ERC20_ABI's name, symbol and decimals entries.
MetadataAbi ==
    <<[constant |-> TRUE, inputs |-> <<>>, name |-> "name",
       outputs |-> <<[name |-> "", type |-> "string"]>>, type |-> "function"],
      [constant |-> TRUE, inputs |-> <<>>, name |-> "symbol",
       outputs |-> <<[name |-> "", type |-> "string"]>>, type |-> "function"],
      [constant |-> TRUE, inputs |-> <<>>, name |-> "decimals",
       outputs |-> <<[name |-> "", type |-> "uint8"]>>, type |-> "function"]>>

Metadata == {"name", "symbol", "decimals"}

\* A property that keeps nothing of what it has read.
AssignForgetting(the_token, prop, out) == the_token

\* self._<prop> = self.contract.read.<prop>(): the assignment happens when
\* the call returns.
Assign(the_token, prop, out) ==
    IF out.exc = None THEN [the_token EXCEPT ![prop] = out.val] ELSE the_token

\* token.name, token.symbol or token.decimals
Access(prop) ==
    /\ abi = MetadataAbi
    /\ Len(accesses) < MaxAccesses
    /\ IF token[prop] # None
       THEN /\ accesses' = Append(accesses, [prop |-> prop, called |-> FALSE,
                                             out |-> Returned(token[prop])])
            /\ ret' = Call("access", prop, Returned(token[prop]))
            /\ UNCHANGED <<token, requests, reply, functions, allocated, ws, invocations>>
       ELSE LET g == GetAttr(functions.read, abi, FALSE, prop)
            IN  \E resp \in CallResponses :
                  LET i == Invoke(g.out.val[1], <<>>, <<>>, resp)
                  IN  /\ functions' = [functions EXCEPT !.read = g.fs]
                      /\ allocated' = allocated + g.made
                      /\ requests' = requests \o i.reqs
                      /\ reply' = IF i.reqs = <<>> THEN reply ELSE Some(resp)
                      /\ ws' = AfterRequests(provider, ws, i.reqs)
                      /\ invocations' = Append(invocations,
                            [function |-> g.out.val[1], positional |-> 0, keywords |-> {},
                             path |-> i.path, args |-> i.args, tx_options |-> i.tx_options])
                      /\ token' = Assign(token, prop, i.out)
                      /\ accesses' = Append(accesses, [prop |-> prop, called |-> TRUE,
                                                        out |-> i.out])
                      /\ ret' = Call("access", prop, i.out)
    /\ UNCHANGED <<txs, pending, chain, now, waitVars, builderVars, abi, wallet,
                   provider, subscriptions, network, connected, ethCalls, trace,
                   subLog, flowVars>>

\* The accesses to the metadata of a token.
TokenNext ==
    \/ NewContract(MetadataAbi)
    \/ \E prop \in Metadata : Access(prop)

----------------------------------------------------------------------------

\* Amounts given as floats: int(amount * 1e18) and int(amount * (10 ** decimals))

MaxHundredths == 119   \* largest amount passed as a float, in hundredths
Precision == 53        \* significant bits of a Python float

\* A natural number in binary, most significant bit first; 0 is <<>>.
RECURSIVE Bits(_)
Bits(n) == IF n = 0 THEN <<>> ELSE Append(Bits(n \div 2), n % 2)

Zeros(n) == [i \in 1..n |-> 0]

\* bits + 1
Inc(bits) ==
    LET zeros == {i \in 1..Len(bits) : bits[i] = 0}
        last == CHOOSE i \in zeros : \A j \in zeros : j <= i
    IN  IF zeros = {} THEN <<1>> \o Zeros(Len(bits))
        ELSE [i \in 1..Len(bits) |-> IF i < last THEN bits[i] ELSE IF i = last THEN 1 ELSE 0]

\* Long multiplication is done on limbs of LimbBits bits, least significant
\* limb first.
LimbBits == 15

Pow2(k) == 2 ^ k

\* The number a few bits denote.
RECURSIVE NatOf(_)
NatOf(bits) ==
    IF bits = <<>> THEN 0
    ELSE IF Len(bits) = 1 THEN bits[1]
    ELSE LET half == Len(bits) \div 2
         IN  NatOf(SubSeq(bits, 1, half)) * Pow2(Len(bits) - half)
                 + NatOf(SubSeq(bits, half + 1, Len(bits)))

Limbs(bits) ==
    LET L == Len(bits)
    IN  [k \in 1..((L + LimbBits - 1) \div LimbBits) |->
            NatOf(SubSeq(bits, IF L - LimbBits * k + 1 < 1 THEN 1 ELSE L - LimbBits * k + 1,
                         L - LimbBits * (k - 1)))]

\* The bits of a number given by its limbs, without leading zeros.
BitsOf(limbs) ==
    LET n == Len(limbs)
        all == [p \in 1..(LimbBits * n) |->
                   (limbs[n - ((p - 1) \div LimbBits)]
                       \div Pow2(LimbBits - 1 - ((p - 1) % LimbBits))) % 2]
        ones == {p \in 1..(LimbBits * n) : all[p] = 1}
    IN  IF ones = {} THEN <<>>
        ELSE SubSeq(all, CHOOSE p \in ones : \A q \in ones : p <= q, LimbBits * n)

\* limbs * c for a small c: the limbs from position k up still to be
\* multiplied, the carry out of those below, and the product's low limbs.
\* Each step's carry and limbs are computed before the next step is taken
\* (the tests on high and lows always hold), which keeps evaluation shallow.
RECURSIVE MulCarry(_, _, _, _, _)
MulCarry(limbs, k, c, carry, low) ==
    IF k > Len(limbs) THEN Append(low, carry)
    ELSE LET product == limbs[k] * c + carry
             high == product \div Pow2(LimbBits)
             lows == Append(low, product % Pow2(LimbBits))
         IN  IF high >= 0 /\ Len(lows) = k
             THEN MulCarry(limbs, k + 1, c, high, lows)
             ELSE <<>>

RECURSIVE LimbsTimesPow10(_, _)
LimbsTimesPow10(limbs, d) ==
    IF d = 0 THEN limbs
    ELSE LET c == IF d >= 3 THEN 1000 ELSE 10
             product == MulCarry(limbs, 1, c, 0, <<>>)
         IN  IF Len(product) = Len(limbs) + 1
             THEN LimbsTimesPow10(product, IF d >= 3 THEN d - 3 ELSE d - 1)
             ELSE <<>>

\* bits * 10^d
TimesPow10(bits, d) == BitsOf(LimbsTimesPow10(Limbs(bits), d))

Pow10(d) == 10 ^ d

\* A float: m * 2^e with m of Precision bits, or zero.
FloatZero == [m |-> <<>>, e |-> 0]

\* The float nearest to bits * 2^e (plus a non-zero remainder below the last
\* bit where sticky), ties to even: IEEE 754 round-to-nearest.
Nearest(bits, e, sticky) ==
    LET L == Len(bits)
        head == SubSeq(bits, 1, Precision)
        rest == sticky \/ \E i \in (Precision + 2)..L : bits[i] = 1
        up == bits[Precision + 1] = 1 /\ (rest \/ head[Precision] = 1)
        inc == Inc(head)
    IN  IF L = 0 THEN FloatZero
        ELSE IF L <= Precision THEN [m |-> bits \o Zeros(Precision - L), e |-> e - (Precision - L)]
        ELSE IF ~up THEN [m |-> head, e |-> e + (L - Precision)]
        ELSE IF Len(inc) > Precision
        THEN [m |-> SubSeq(inc, 1, Precision), e |-> e + (L - Precision) + 1]
        ELSE [m |-> inc, e |-> e + (L - Precision)]

\* The first n limbs of the binary expansion of r / den, least significant
\* first, and the remainder left below them.
RECURSIVE FractionLimbs(_, _, _)
FractionLimbs(r, den, n) ==
    IF n = 0 THEN [limbs |-> <<>>, r |-> r]
    ELSE IF r = 0 THEN [limbs |-> Zeros(n), r |-> 0]
    ELSE LET below == FractionLimbs((r * Pow2(LimbBits)) % den, den, n - 1)
         IN  [limbs |-> Append(below.limbs, (r * Pow2(LimbBits)) \div den), r |-> below.r]

\* Limbs of the fraction that are expanded: more bits than a float holds.
FractionLimbCount == 5

\* The float a decimal literal denotes: num / 10^places.
FloatOf(a) ==
    LET den == Pow10(a.places)
        fraction == FractionLimbs(a.num % den, den, FractionLimbCount)
    IN  Nearest(BitsOf(fraction.limbs \o Limbs(Bits(a.num \div den))),
                0 - LimbBits * FractionLimbCount, fraction.r # 0)

\* x * 1e18 and x * (10 ** d): the product of two floats, the second being
\* 10^d exactly (d <= 22).
FloatTimesPow10(x, d) ==
    IF x.m = <<>> THEN FloatZero ELSE Nearest(TimesPow10(x.m, d), x.e, FALSE)

\* round(x): the nearest integer, ties to even.
RoundOf(x) ==
    LET f == 0 - x.e
        ip == SubSeq(x.m, 1, Precision - f)
        half == x.m[Precision - f + 1] = 1
        more == \E i \in (Precision - f + 2)..Precision : x.m[i] = 1
        odd == ip # <<>> /\ ip[Len(ip)] = 1
    IN  IF x.m = <<>> THEN <<>>
        ELSE IF x.e >= 0 THEN x.m \o Zeros(x.e)
        ELSE IF f > Precision THEN <<>>
        ELSE IF half /\ (more \/ odd) THEN Inc(ip) ELSE ip

\* int(x) that rounds to the nearest integer.
IntOfRounding(x) == RoundOf(x)

\* int(x): the integer part.
IntOf(x) ==
    IF x.m = <<>> THEN <<>>
    ELSE IF x.e >= 0 THEN x.m \o Zeros(x.e)
    ELSE IF 0 - x.e >= Precision THEN <<>>
    ELSE SubSeq(x.m, 1, Precision + x.e)

\* The float amounts passed: 0.00, 0.01, ..., in hundredths.
FloatAmounts == {[num |-> n, places |-> 2] : n \in 0..MaxHundredths}

\* The decimals of the tokens.
TokenDecimals == {2, 18}

\* Ethereum.send with a float amount: amount = int(amount * 1e18)
SendAmount(amount) ==
    /\ ret.op = "new"
    /\ ret' = Call("send", [amount |-> amount, decimals |-> 18],
                   Returned(Some(IntOf(FloatTimesPow10(FloatOf(amount), 18)))))
    /\ UNCHANGED <<txs, pending, requests, reply, chain, now, waitVars, builderVars,
                   contractVars, ethereumVars, restVars>>

\* ERC20Token.transfer, approve and transfer_from with a float amount and
\* the token's decimals cached: amount = int(amount * (10 ** self.decimals))
TokenAmount(amount, decimals) ==
    /\ ret.op = "new"
    /\ token.decimals = Some(PyInt(decimals))
    /\ ret' = Call("transfer", [amount |-> amount, decimals |-> decimals],
                   Returned(Some(IntOf(FloatTimesPow10(FloatOf(amount), decimals)))))
    /\ UNCHANGED <<txs, pending, requests, reply, chain, now, waitVars, builderVars,
                   contractVars, ethereumVars, restVars>>

\* token.decimals has been read.
DecimalsRead(decimals) ==
    /\ token.decimals = None
    /\ token' = [token EXCEPT !.decimals = Some(PyInt(decimals))]
    /\ UNCHANGED <<txs, pending, requests, reply, chain, ret, now, waitVars, builderVars,
                   contractVars, ethereumVars, subLog, accesses, flowVars>>

\* A float amount converted by send or by a token's transfer, the first call
\* of the run.
ConversionNext ==
    \/ \E decimals \in TokenDecimals : DecimalsRead(decimals)
    \/ \E amount \in FloatAmounts : SendAmount(amount)
    \/ \E amount \in FloatAmounts, decimals \in TokenDecimals : TokenAmount(amount, decimals)

----------------------------------------------------------------------------

\* Concurrent flows: lookups on a facade, and broadcasts

\* The flows of control that run concurrently.
Flows == {1, 2}

\* A flow enters __getattr__(name) on contract.read or contract.write and
\* runs it up to the assignment to self._functions[name]: it returns what is
\* cached or raises, or it has constructed the ContractFunction.
FlowLookup(f, group, name) ==
    /\ fpc[f] = "idle"
    /\ abi # <<>>
    /\ LET g == GetAttr(functions[group], abi, group = "write", name)
       IN  /\ allocated' = allocated + g.made
           /\ fpc' = [fpc EXCEPT ![f] = IF g.made = 0 THEN "done" ELSE "resolved"]
           /\ fLocal' = [fLocal EXCEPT ![f] = Some([group |-> group, name |-> name,
                                                    out |-> g.out])]
    /\ UNCHANGED <<txs, pending, requests, reply, chain, ret, now, waitVars, builderVars,
                   contractVars, provider, subscriptions, network, connected, ws, ethCalls,
                   trace, subLog, tokenVars>>

\* self._functions[name] = function; return function
FlowStore(f) ==
    /\ fpc[f] = "resolved"
    /\ LET my == fLocal[f][1]
       IN  functions' = [functions EXCEPT ![my.group] = DictSet(@, my.name, my.out.val[1])]
    /\ fpc' = [fpc EXCEPT ![f] = "done"]
    /\ UNCHANGED <<txs, pending, requests, reply, chain, ret, now, waitVars, builderVars,
                   abi, wallet, invocations, ethereumVars, subLog, tokenVars, fLocal>>

\* Two flows looking functions up on the facades of one contract.
LookupFlowNext ==
    \/ \E the_abi \in CallAbis : NewContract(the_abi)
    \/ \E f \in Flows, group \in Groups, name \in FunctionNames : FlowLookup(f, group, name)
    \/ \E f \in Flows : FlowStore(f)

\* A flow enters broadcast(transaction) and runs it up to the assignment to
\* self._pending_transactions[tx_hash]: it has raised, or it holds the node's
\* answer. The flows broadcast different transactions.
FlowBroadcast(f, t) ==
    /\ fpc[f] = "idle"
    /\ \A g \in Flows : fLocal[g] # None => fLocal[g][1].t # t
    /\ \E resp \in SendResponses :
        LET b == BroadcastTx(txs[t], resp)
        IN  /\ requests' = requests \o b.reqs
            /\ reply' = IF b.reqs = <<>> THEN reply ELSE Some(resp)
            /\ fpc' = [fpc EXCEPT ![f] = IF b.insert = None THEN "done" ELSE "answered"]
            /\ fLocal' = [fLocal EXCEPT ![f] = Some([t |-> t, tx_hash |-> b.insert,
                                                     out |-> b.out])]
    /\ UNCHANGED <<txs, pending, chain, ret, now, waitVars, builderVars, contractVars,
                   ethereumVars, subLog, tokenVars>>

\* self._pending_transactions[tx_hash] = transaction; return tx_hash
FlowInsert(f) ==
    /\ fpc[f] = "answered"
    /\ LET my == fLocal[f][1]
       IN  pending' = DictSet(pending, my.tx_hash[1], my.t)
    /\ fpc' = [fpc EXCEPT ![f] = "done"]
    /\ UNCHANGED <<txs, requests, reply, chain, ret, now, waitVars, builderVars,
                   contractVars, ethereumVars, subLog, tokenVars, fLocal>>

\* Two flows broadcasting the two transactions through one manager.
BroadcastFlowNext ==
    \/ \E t \in TxIds : Sign(t)
    \/ \E f \in Flows, t \in TxIds : FlowBroadcast(f, t)
    \/ \E f \in Flows : FlowInsert(f)

----------------------------------------------------------------------------

ChainIdOf == [t \in TxIds |-> IF t = "tx1" THEN DefaultChainId ELSE GoerliChainId]

Init ==
    /\ txs = [t \in TxIds |-> NewTransaction(ChainIdOf[t])]
    /\ pending = <<>>
    /\ requests = <<>>
    /\ reply = None
    /\ chain = [h \in Hashes |-> None]
    /\ ret = Call("new", "", Returned(None))
    /\ now = 0
    /\ wpc = "idle"
    /\ wArgs = [tx_hash |-> SigHash, timeout |-> 0, poll_interval |-> 0]
    /\ wStart = 0
    /\ wReceipt = None
    /\ wWake = 0
    /\ wTrace = <<>>
    /\ wResult = Returned(None)
    /\ builder = NewBuilder(DefaultChainId)
    /\ bCalls = <<>>
    /\ abi = <<>>
    /\ functions = [read |-> <<>>, write |-> <<>>]
    /\ wallet = None
    /\ invocations = <<>>
    /\ allocated = 0
    /\ network = Lower(DefaultNetwork)
    /\ provider = ProviderFor(DefaultUrl(DefaultNetwork))
    /\ subscriptions = <<>>
    /\ connected = FALSE
    /\ ws = None
    /\ ethCalls = 0
    /\ trace = <<>>
    /\ subLog = <<>>
    /\ token = [name |-> None, symbol |-> None, decimals |-> None]
    /\ accesses = <<>>
    /\ fpc = [f \in Flows |-> "idle"]
    /\ fLocal = [f \in Flows |-> None]

Next ==
    \/ \E t \in TxIds : Broadcast(t)
    \/ \E t \in TxIds : Sign(t)
    \/ \E t \in TxIds : Serialize(t)
    \/ \E t \in TxIds : GetHash(t)
    \/ \E h \in Hashes : GetReceiptCall(h)
    \/ \E h \in Hashes : GetStatusCall(h)
    \/ \E h \in Hashes, st \in {"0x1", "0x0"} : Mine(h, st)

Spec == Init /\ [][Next]_vars

\* wait_for_receipt running against the node.
WaitStep ==
    \/ WfrCheck
    \/ WfrPoll
    \/ WfrTest
    \/ WfrSleep
    \/ Tick
    \/ WfrWake

WaitNext ==
    \/ Elapse
    \/ \E h \in Hashes, st \in {"0x1", "0x0"} : Mine(h, st)
    \/ \E h \in Hashes, timeout \in 0..MaxTimeout, poll_interval \in 0..MaxInterval :
          WfrCall(h, timeout, poll_interval)
    \/ WaitStep

WaitSpec == Init /\ [][WaitNext]_vars

\* The manager's calls on one transaction and one hash and get_chain_id, with
\* a wait_for_receipt in progress or not.
ManagerNext ==
    \/ Sign("tx1")
    \/ Broadcast("tx1")
    \/ \E st \in {"0x1", "0x0"} : Mine(SigHash, st)
    \/ GetReceiptCall(SigHash)
    \/ GetStatusCall(SigHash)
    \/ GetChainIdCall
    \/ CreateTransactionCall
    \/ GetNonceCall(WalletAddress)
    \/ EstimateFeeCall("tx1")
    \/ WfrCall(SigHash, 1, 1)
    \/ WaitStep

ManagerSpec == Init /\ [][ManagerNext]_vars

\* Lookups on the two facades of a contract with any of the ABIs.
LookupSpec == Init /\ [][LookupNext]_vars

\* Lookups and calls on a contract, with or without a wallet.
ContractSpec == Init /\ [][ContractNext]_vars

\* Calls of approve with arguments by position and by name.
BindingSpec == Init /\ [][BindingNext]_vars

\* Logs parsed and events watched on a contract, over either provider.
EventSpec == Init /\ [][EventNext]_vars

\* The validators applied to strings.
ValidationSpec == Init /\ [][ValidationNext]_vars

\* Calls on an Ethereum with either provider and on a token over it.
EthereumSpec == Init /\ [][EthereumNext]_vars

\* A caller driving one builder.
BuilderSpec == Init /\ [][BuilderNext]_vars

\* A caller subscribing and unsubscribing on a WebSocketProvider.
ProviderSpec == Init /\ [][ProviderNext]_vars

\* A caller reading the metadata of a token.
TokenSpec == Init /\ [][TokenNext]_vars

\* Float amounts passed to send and to a token's transfer.
ConversionSpec == Init /\ [][ConversionNext]_vars

\* Concurrent first lookups of contract functions.
LookupFlowSpec == Init /\ [][LookupFlowNext]_vars

\* Concurrent broadcasts of different transactions.
BroadcastFlowSpec == Init /\ [][BroadcastFlowNext]_vars

\* The keyword arguments of the write calls that may carry a nonce.
NonceKeywords ==
    {[k \in S |-> KwValue[k]] : S \in {{"gas_price"}, {"nonce"}, {"gas_price", "nonce"}}}

\* Transactions submitted by send and by contract.write.transfer.
SubmitNext ==
    \/ SetWallet
    \/ NewContract(Erc20Abi)
    \/ \E gas_limit_ \in OptionalGasLimits, gas_price_ \in OptionalGasPrices :
          SendCall(ValidAddress, 5, gas_limit_, gas_price_)
    \/ Lookup("write", "transfer")
    \/ \E kwargs \in NonceKeywords : CallFunction("write", "transfer", ArgValues, kwargs)

SubmitSpec == Init /\ [][SubmitNext]_vars

\* Deployments through an Ethereum of either provider and network.
DeployNext ==
    \/ \E provider_url \in ProviderUrls, network_name \in NetworkNames :
          NewEthereum(provider_url, network_name)
    \/ SetWallet
    \/ \E bytecode \in Bytecodes, kwargs \in DeployKeywords : DeployCall(bytecode, kwargs)

DeploySpec == Init /\ [][DeployNext]_vars

\* The calling thread keeps executing and the clock keeps advancing.
FairWaitSpec == WaitSpec /\ WF_vars(WaitStep)

----------------------------------------------------------------------------
\* Properties

Signed(tx) == tx.v # None /\ tx.r # None /\ tx.s # None

\* A step in which the named manager call ran and talked to the provider.
Ran(op) == ret'.op = op /\ requests' # requests

\* The provider's last response reports a failed submission: it raised, or
\* the response has no result member.
NoResult(resp) == resp.raised \/ "result" \notin DOMAIN resp.body

\* C1: in every state reachable through sign, serialize and get_hash,
\* serialize() succeeds iff get_hash() succeeds iff v, r and s are all
\* populated, a completed call reports exactly that, and on an unsigned
\* transaction both fail with the "not signed" ValueError.
C1_SerializableIffHashIffSigned ==
    /\ \A t \in TxIds :
        /\ (SerializeTx(txs[t]).exc = None) <=> Signed(txs[t])
        /\ (GetHashTx(txs[t]).exc = None) <=> Signed(txs[t])
        /\ ~Signed(txs[t]) =>
              /\ SerializeTx(txs[t]).exc = NotSigned
              /\ GetHashTx(txs[t]).exc = NotSigned
    /\ ret.op \in {"serialize", "get_hash"} =>
          /\ (ret.exc = None) <=> Signed(txs[ret.target])
          /\ ret.exc # None => ret.exc = NotSigned

C1_Witness ==
    /\ ret.op = "get_hash" /\ ret.target = "tx1" /\ ret.exc = None
    /\ Signed(txs["tx1"])
    /\ ~Signed(txs["tx2"])

\* C2: after broadcast(tx) has succeeded and returned a hash, that hash is
\* tx's own hash (what tx.get_hash() returns) and the pending map holds tx
\* under it.
C2_PendingKeyedByOwnHash ==
    (ret.op = "broadcast" /\ ret.exc = None /\ ret.val # None) =>
        /\ ret.val = GetHashTx(txs[ret.target]).val
        /\ ret.val \in DOMAIN pending
        /\ pending[ret.val] = ret.target

\* C3: broadcast of an unsigned transaction fails, sends no request to the
\* provider and leaves the pending map as it was.
C3_UnsignedBroadcastFails ==
    [][(ret'.op = "broadcast" /\ ~Signed(txs'[ret'.target])) =>
          /\ ret'.exc # None
          /\ requests' = requests
          /\ pending' = pending]_vars

C3_Witness ==
    /\ ret.op = "broadcast" /\ ret.exc # None
    /\ ~Signed(txs[ret.target])
    /\ requests # <<>>
    /\ DOMAIN pending # {}

\* C4: when the submission inside broadcast fails (the provider raises, or
\* the response has no result member), broadcast raises and the pending map
\* is unchanged.
C4_FailedSubmissionInsertsNothing ==
    [][(Ran("broadcast") /\ NoResult(reply'[1])) =>
          /\ ret'.exc # None
          /\ ret'.exc[1].type = "Exception"
          /\ pending' = pending]_vars

C4_Witness ==
    /\ ret.op = "broadcast" /\ ret.exc # None
    /\ Signed(txs[ret.target])
    /\ reply # None /\ NoResult(reply[1])
    /\ DOMAIN pending # {}

\* The status the node's state implies for h: no receipt, or the receipt's
\* success flag.
NodeStatus(h) ==
    IF chain[h] = None THEN PENDING
    ELSE IF chain[h][1].raw.status = "0x1" THEN CONFIRMED
    ELSE FAILED

\* The provider handed over what the node holds for h.
Faithful(resp, h) ==
    resp = Reply([result |-> IF chain[h] = None THEN None ELSE Some(chain[h][1].raw)])

\* C5: get_status(h) is determined by the receipt query alone: PENDING when
\* the node has no receipt for h, CONFIRMED when the receipt's success flag
\* is set, FAILED when it is not; the pending map plays no part in it.
C5_StatusFollowsReceipt ==
    [][(Ran("get_status") /\ Faithful(reply'[1], ret'.target)) =>
          /\ ret'.exc = None
          /\ ret'.val = Some(NodeStatus(ret'.target))]_vars

C5_Witness ==
    /\ ret.op = "get_status" /\ ret.val = Some(CONFIRMED)
    /\ Some(ret.target) \in DOMAIN pending
    /\ chain[ret.target] # None

C7_TimeoutOnlyWithoutReceipt ==
    (wpc = "timeout" /\ wArgs.timeout > 0) =>
        ~(/\ chain[wArgs.tx_hash] # None
          /\ chain[wArgs.tx_hash][1].at < wStart + wArgs.timeout)

WfrFinished == wpc \in {"returned", "timeout", "error"}

\* No get_receipt request of this invocation took any time.
InstantPolls == \A i \in 1..Len(wTrace) : wTrace[i].ev = "get_receipt" => wTrace[i].dur = 0

C8_TimeoutRaised ==
    (wpc = "timeout" /\ wArgs.poll_interval > 0) =>
        /\ wResult = Raised(TimedOut(wArgs.tx_hash, wArgs.timeout))
        /\ Polls >= 1 => (Polls - 1) * wArgs.poll_interval < wArgs.timeout
        /\ InstantPolls => now - wStart < wArgs.timeout + wArgs.poll_interval

\* C8: with poll_interval > 0, a wait_for_receipt whose polls find no receipt
\* ends after finitely many polls, at most one per poll_interval within the
\* timeout, by raising the TimeoutError built from the hash and the timeout,
\* and earlier than timeout + poll_interval after the start when the requests
\* take no time; it never runs forever.
C8_TimeoutTerminates ==
    /\ []C8_TimeoutRaised
    /\ []((wpc = "check" /\ wArgs.poll_interval > 0) => <>WfrFinished)

C8_Witness ==
    /\ wpc = "timeout" /\ wArgs.poll_interval > 0
    /\ Polls = 2 /\ InstantPolls
    /\ chain[wArgs.tx_hash] = None

\* C9: once a poll has found a receipt, wait_for_receipt returns exactly that
\* receipt: its next step is the return, with no further sleep and no further
\* get_receipt call.
C9_ReturnsAtOnce ==
    /\ [][(wpc = "test" /\ wReceipt # None) =>
             \/ UNCHANGED waitVars
             \/ /\ wpc' = "returned"
                /\ wResult' = Returned(wReceipt)
                /\ wTrace' = wTrace
                /\ requests' = requests]_vars
    /\ [](wpc = "returned" =>
             /\ wResult.val # None
             /\ wResult = GetReceipt(reply[1])
             /\ wTrace[Len(wTrace)].ev = "get_receipt")

C9_Witness ==
    /\ wpc = "returned"
    /\ Polls = 2 /\ Sleeps = 1
    /\ wResult.val[1].transaction_hash = wArgs.tx_hash

\* C10: within one wait_for_receipt the polls and sleeps alternate, each
\* sleep lasting poll_interval, and the loop goes on exactly while the clock
\* reads less than timeout since start_time, however many polls were made.
C10_SleepBetweenPollsAndWallClock ==
    /\ \A i \in 1..Len(wTrace) :
          IF i % 2 = 1 THEN wTrace[i].ev = "get_receipt"
          ELSE wTrace[i] = [ev |-> "sleep", dur |-> wArgs.poll_interval]
    /\ wpc = "poll" => now - wStart < wArgs.timeout
    /\ wpc = "timeout" => now - wStart >= wArgs.timeout

C10_Witness ==
    /\ wpc = "timeout"
    /\ wArgs.poll_interval >= 1
    /\ Polls >= 1
    /\ Polls * wArgs.poll_interval < wArgs.timeout

----------------------------------------------------------------------------
\* v, r, s and the hash are all present.
Populated(tx) == Signed(tx) /\ tx.hash # None

\* C11: there is no Signed -> Unsigned transition: a transaction that sign()
\* has been called on has v, r, s and hash populated from then on, whatever
\* sign, serialize, get_hash and broadcast calls follow, and sign() returns the
\* transaction object it was called on.
C11_SignedStaysSigned ==
    [][/\ \A t \in TxIds : Populated(txs[t]) => Populated(txs'[t])
       /\ ret'.op = "sign" =>
              /\ Populated(txs'[ret'.target])
              /\ ret'.exc = None
              /\ ret'.val = Some(ret'.target)]_vars

\* A signed transaction has been broadcast and is populated still.
C11_Witness ==
    /\ ret.op = "broadcast"
    /\ requests # <<>>
    /\ Populated(txs[ret.target])

\* C12: on a signed transaction get_hash() and serialize() are idempotent
\* reads: the call changes no field of any transaction, and calling again in
\* the state it leaves returns the same hash, the same serialization.
C12_SignedReadsIdempotent ==
    [][\A t \in TxIds :
          (ret'.target = t /\ Signed(txs[t])) =>
              /\ ret'.op = "get_hash" =>
                    /\ txs' = txs
                    /\ ret'.exc = None /\ ret'.val # None
                    /\ ret' = Call("get_hash", t, GetHashTx(txs'[t]))
              /\ ret'.op = "serialize" =>
                    /\ txs' = txs
                    /\ ret'.exc = None /\ ret'.val # None
                    /\ ret' = Call("serialize", t, SerializeTx(txs'[t]))]_vars

\* serialize() has returned the bytes of a signed transaction.
C12_Witness ==
    /\ ret.op = "serialize"
    /\ ret.exc = None
    /\ ret.val = Some(SerializedTx)
    /\ Populated(txs[ret.target])

----------------------------------------------------------------------------
\* The builder

Last(seq) == seq[Len(seq)]

\* The method called in this step, if the step is a call on the builder.
Called(name) == bCalls' # bCalls /\ Last(bCalls') = name

FeeSetters == {"gas_price", "eip1559_fee"}
FeeCalls == SelectSeq(bCalls, LAMBDA name : name \in FeeSetters)

\* C13: for every sequence of fee-setter calls, the type tag build() works
\* with is that of the fee setter called last: 0 (legacy) after gas_price(),
\* 2 (dual-fee) after eip1559_fee().
C13_LastFeeSetterDecidesScheme ==
    (/\ bCalls # <<>> /\ Last(bCalls) = "build"
     /\ builder.to # None
     /\ FeeCalls # <<>>)
        => builder.type = (IF Last(FeeCalls) = "gas_price" THEN LEGACY ELSE EIP1559)

\* build() refuses: the recipient is unset, or the scheme is legacy and the gas
\* price is unset.
Incomplete(b) == b.to = None \/ (b.type = LEGACY /\ b.gas_price = None)

\* What a build() step does, given how the transaction's data is to relate to
\* the builder's: it leaves the builder as it was; on an incomplete builder it
\* raises ValueError and returns nothing; otherwise it returns an unsigned
\* transaction with the builder's to, value, gas price, nonce and chain id.
BuildStep(SameData(_, _)) ==
    Called("build") =>
        /\ builder' = builder
        /\ IF Incomplete(builder)
           THEN /\ ret'.exc # None
                /\ ret'.exc[1].type = "ValueError"
                /\ ret'.val = None
           ELSE /\ ret'.exc = None
                /\ ret'.val # None
                /\ LET tx == ret'.val[1]
                   IN  /\ tx.to = builder.to
                       /\ tx.value = builder.value
                       /\ tx.gas_price = builder.gas_price
                       /\ tx.nonce = builder.nonce
                       /\ tx.chain_id = builder.chain_id
                       /\ SameData(tx, builder)
                       /\ ~Signed(tx) /\ tx.hash = None

\* C14, as stated: build() fails with ValueError and returns no transaction
\* when the recipient is unset or the scheme is legacy without a gas price, and
\* leaves every builder field unchanged; on a completed builder it returns an
\* unsigned transaction whose to, value, gas price, data, nonce and chain id
\* equal the builder's.
C14_BuildFailsOrCopies ==
    [][BuildStep(LAMBDA tx, b : tx.data = b.data)]_bCalls

\* C14, amended: the same, except that the transaction's data equals the
\* builder's only where the builder's is set and not empty; otherwise the
\* transaction carries empty bytes.
C14_BuildFailsOrCopiesDataDefaulted ==
    [][BuildStep(LAMBDA tx, b :
                    tx.data = IF b.data = None \/ b.data = Some("") THEN Some("")
                              ELSE b.data)]_bCalls

\* A build() that failed, the recipient and the gas price set since, and a
\* second build() that returned a transaction.
C14_Witness ==
    /\ Len(bCalls) >= 2
    /\ bCalls[1] = "build"
    /\ Last(bCalls) = "build"
    /\ ret.exc = None
    /\ ret.val # None

\* C15: every transaction build() returns carries the fee parameters of its
\* scheme: a gas price under the legacy scheme, the max fee and the max
\* priority fee under the dual-fee scheme.
C15_BuiltCarriesSchemeFees ==
    (bCalls # <<>> /\ Last(bCalls) = "build" /\ ret.exc = None) =>
        LET tx == ret.val[1]
        IN  IF builder.type = LEGACY
            THEN tx.gas_price # None
            ELSE /\ {"max_fee_per_gas", "max_priority_fee_per_gas"} \subseteq DOMAIN tx
                 /\ tx.max_fee_per_gas # None
                 /\ tx.max_priority_fee_per_gas # None

\* What a setter step does, given the fields each setter may write: it
\* returns the builder it was called on and leaves every other field as it was.
SetterStep(writes) ==
    \A name \in DOMAIN writes :
        Called(name) =>
            /\ ret'.exc = None
            /\ ret'.val = Some(BuilderId)
            /\ \A f \in DOMAIN builder \ writes[name] : builder'[f] = builder[f]

\* The field each setter is named after.
Named ==
    [to |-> {"to"}, value |-> {"value"}, data |-> {"data"}, fee |-> {"fee"},
     nonce |-> {"nonce"}, gas_price |-> {"gas_price"}, gas_limit |-> {"gas_limit"},
     eip1559_fee |-> {"max_fee_per_gas", "max_priority_fee_per_gas"}]

\* C16, as stated: every setter returns the builder it was called on and
\* changes only the field(s) it names.
C16_SettersWriteOnlyNamedFields ==
    [][SetterStep(Named)]_bCalls

\* C16, amended: the same, except that eip1559_fee, besides the two fee fields
\* it names, also sets the type tag.
C16_SettersWriteNamedFieldsAndTag ==
    [][SetterStep([Named EXCEPT !.eip1559_fee = @ \cup {"type"}])]_bCalls

\* gas_limit() has been called on a builder holding a gas price and the
\* dual-fee tag.
C16_Witness ==
    /\ bCalls # <<>>
    /\ Last(bCalls) = "gas_limit"
    /\ builder.gas_limit # None
    /\ builder.gas_price # None
    /\ builder.type = EIP1559
    /\ ret.val = Some(BuilderId)

----------------------------------------------------------------------------
\* The contract

\* The ABI entry is marked constant: constant: true, or a state mutability of
\* view or pure.
MarkedConstant(item) ==
    \/ ("constant" \in DOMAIN item /\ item.constant = TRUE)
    \/ ("stateMutability" \in DOMAIN item /\ item.stateMutability \in {"view", "pure"})

\* The ABI has a function entry of this name in this group.
InGroup(group, name) ==
    \E i \in 1..Len(abi) :
        /\ abi[i].type = "function"
        /\ abi[i].name = name
        /\ MarkedConstant(abi[i]) <=> (group = "read")

\* C17: a lookup on the read facade succeeds exactly when the ABI has a
\* constant function entry of that name, on the write facade exactly when it
\* has a function entry of that name that is not constant; every other lookup
\* raises AttributeError; and the function returned has constant = TRUE from
\* read, constant = FALSE from write.
C17_LookupByGroup ==
    ret.op = "getattr" =>
        IF InGroup(ret.target.group, ret.target.name)
        THEN /\ ret.exc = None
             /\ ret.val # None
             /\ ret.val[1].name = ret.target.name
             /\ ret.val[1].constant = (ret.target.group = "read")
        ELSE /\ ret.val = None
             /\ ret.exc # None
             /\ ret.exc[1].type = "AttributeError"

\* A name whose only function entry is constant has been looked up on the
\* write facade and refused, after the read facade handed it out.
C17_Witness ==
    /\ ret.op = "getattr"
    /\ ret.target.group = "write"
    /\ ret.exc # None
    /\ InGroup("read", ret.target.name)
    /\ ret.target.name \in DOMAIN functions.read

\* The invocation made in this step, if the step is a call of a function.
Invoked == invocations' # invocations
Invocation == Last(invocations')

\* C18: a call of a constant function takes the read path only: the one
\* request it sends is an eth_call, what it returns is the decoding of the
\* response's result, and it creates no transaction, sends no
\* eth_sendRawTransaction and leaves the pending map as it was.
C18_ConstantCallsOnlyRead ==
    [][(Invoked /\ Invocation.function.constant
                /\ InGroup("read", Invocation.function.name)) =>
          /\ \A i \in Len(requests) + 1..Len(requests') :
                requests'[i].method = "eth_call"
          /\ pending' = pending
          /\ txs' = txs
          /\ Invocation.path # Some("_transact_function")
          /\ Invocation.path = Some("_call_function") =>
                /\ Len(requests') = Len(requests) + 1
                /\ IF NoResult(reply'[1])
                   THEN ret'.exc # None /\ ret'.exc[1].type = "Exception"
                   ELSE LET decoded == Decode(reply'[1].body.result, Invocation.function.outputs)
                        IN  IF decoded.exc # None
                            THEN ret'.exc # None /\ ret'.exc[1].type = "Exception"
                            ELSE ret'.exc = None /\ ret'.val = decoded.val]_invocations

\* balanceOf has been called on the read facade and has returned the number
\* decoded from the node's answer.
C18_Witness ==
    /\ ret.op = "call"
    /\ ret.target = [group |-> "read", name |-> "balanceOf"]
    /\ ret.exc = None
    /\ ret.val = Some(PyInt(42))
    /\ Len(requests) = 1
    /\ requests[1].method = "eth_call"
    /\ pending = <<>>

\* The provider answered the request of this step, if one was made, with a
\* transaction hash.
Responsive ==
    requests' # requests =>
        /\ ~NoResult(reply'[1])
        /\ reply'[1].body.result # None

\* C19: a call through the write facade of a function that is not constant,
\* with arguments that bind, a wallet set and a responsive provider, returns
\* the hash that broadcast returned, and the transaction built and signed for
\* it is then in the pending map, whatever transaction options were passed,
\* none included.
C19_WriteCallReturnsBroadcastHash ==
    [][(/\ Invoked
        /\ ~Invocation.function.constant
        /\ Invocation.path = Some("_transact_function")
        /\ wallet # None
        /\ Responsive) =>
          /\ ret'.exc = None
          /\ Len(requests') = Len(requests) + 1
          /\ Last(requests').method = "eth_sendRawTransaction"
          /\ ret'.val = reply'[1].body.result
          /\ ret'.val \in DOMAIN pending'
          /\ LET tx == txs'[pending'[ret'.val]]
             IN  /\ Populated(tx)
                 /\ tx.to = Some(ContractAddress)]_invocations

\* All parameters of the invoked function were supplied, the first ones
\* positionally and every other one under its ABI name; any further keyword
\* is a transaction option.
SuppliedInFull(inv) ==
    LET inputs == inv.function.inputs
        names == {inputs[i].name : i \in 1..Len(inputs)}
    IN  /\ inv.positional <= Len(inputs)
        /\ inv.keywords \cap names = {inputs[i].name : i \in inv.positional + 1..Len(inputs)}
        /\ inv.keywords \ names \subseteq OptionKeys

\* C20: when all parameters are supplied as a positional prefix plus named
\* arguments for the rest, the call dispatches with exactly len(inputs)
\* arguments in ABI order, argument i being the value supplied for parameter
\* i, whatever the parameters are called: value, nonce, gas and gas_price too.
C20_NamedArgumentsBindByName ==
    [][(Invoked /\ SuppliedInFull(Invocation)) =>
          /\ Invocation.path # None
          /\ Len(Invocation.args) = Len(Invocation.function.inputs)
          /\ \A i \in 1..Len(Invocation.args) :
                Invocation.args[i] =
                    IF i <= Invocation.positional THEN ArgValues[i]
                    ELSE KwValue[Invocation.function.inputs[i].name]]_invocations

\* The parameters of the invoked function from position i on that got no
\* value: neither a positional argument nor a keyword that reached the binding.
RECURSIVE Unbound(_, _)
Unbound(inv, i) ==
    IF i > Len(inv.function.inputs) THEN <<>>
    ELSE (IF i <= inv.positional \/ inv.function.inputs[i].name \in inv.keywords \ OptionKeys
          THEN <<>> ELSE <<inv.function.inputs[i].name>>)
         \o Unbound(inv, i + 1)

\* No more arguments than parameters, and no parameter supplied twice.
Binds(inv) ==
    /\ inv.positional + Cardinality(inv.keywords \ OptionKeys) <= Len(inv.function.inputs)
    /\ \A i \in 1..Len(inv.function.inputs) :
          i <= inv.positional => inv.function.inputs[i].name \notin inv.keywords

\* C21: a call whose binding leaves parameters without a value raises
\* ValueError before any dispatch and any request, and the error's message
\* lists exactly the parameters that got no value.
C21_MissingNamesUnbound ==
    [][(Invoked /\ Binds(Invocation) /\ Unbound(Invocation, 1) # <<>>) =>
          /\ Invocation.path = None
          /\ requests' = requests
          /\ ret'.exc = MissingArgs(Unbound(Invocation, 1))]_invocations

\* The keywords of an invocation that name a parameter of the function or
\* that name no transaction option: its arguments by name.
ByName(inv) ==
    inv.keywords \ (OptionKeys \ {inv.function.inputs[i].name : i \in 1..Len(inv.function.inputs)})

\* A parameter was supplied both positionally and by name.
SuppliedTwice(inv) ==
    \E i \in 1..Len(inv.function.inputs) :
        i <= inv.positional /\ inv.function.inputs[i].name \in inv.keywords

\* C22: a call that supplies a parameter both positionally and by name, or
\* more arguments in total than the function has parameters, raises
\* ValueError and dispatches nothing: it takes neither path, makes no request
\* and creates no transaction.
C22_ConflictsFailWithoutDispatch ==
    [][(Invoked /\ (\/ SuppliedTwice(Invocation)
                    \/ Invocation.positional + Cardinality(ByName(Invocation))
                          > Len(Invocation.function.inputs))) =>
          /\ Invocation.path = None
          /\ requests' = requests
          /\ pending' = pending
          /\ txs' = txs
          /\ ret'.exc # None
          /\ ret'.exc[1].type = "ValueError"]_invocations

\* The ContractFunction objects the two facades hold.
Cached == {c \in Groups \X (LookupNames \cup CallNames) : c[2] \in DOMAIN functions[c[1]]}

\* What the last lookup returned is the object its facade holds under that
\* name, a failed lookup left nothing under its name, and every object
\* constructed so far is held by a facade under one name.
OneObjectPerName ==
    /\ ret.op = "getattr" =>
          IF ret.exc = None
          THEN /\ ret.target.name \in DOMAIN functions[ret.target.group]
               /\ ret.val = Some(functions[ret.target.group][ret.target.name])
          ELSE ret.target.name \notin DOMAIN functions[ret.target.group]
    /\ allocated = Cardinality(Cached)
    /\ \A c, d \in Cached :
          functions[c[1]][c[2]].id = functions[d[1]][d[2]].id => c = d

\* A step keeps every object a facade holds, and a lookup that fails adds none.
KeepsObjects ==
    /\ \A c \in Cached :
          /\ c[2] \in DOMAIN functions'[c[1]]
          /\ functions'[c[1]][c[2]] = functions[c[1]][c[2]]
    /\ ret'.exc # None => functions' = functions /\ allocated' = allocated

\* C23: every lookup of a name a facade resolves returns the one
\* ContractFunction object constructed at the first lookup of that name on
\* that facade, so there is at most one object per (facade, name); a lookup
\* that fails caches nothing.
C23_LookupsReturnFirstObject ==
    []OneObjectPerName /\ [][KeepsObjects]_<<functions, allocated>>

\* After a second object was constructed, a lookup has again returned the
\* object constructed first.
C23_Witness ==
    /\ ret.op = "getattr"
    /\ ret.exc = None
    /\ ret.val[1].id = 1
    /\ allocated = 2

----------------------------------------------------------------------------
\* Events

\* The log corresponds to an event the ABI declares: the event's name occurs
\* in the log's first topic, letter case aside.
Declares(the_abi, log) ==
    /\ "topics" \in DOMAIN log
    /\ log.topics # <<>>
    /\ \E i \in 1..Len(the_abi) :
          /\ the_abi[i].type = "event"
          /\ Contains(Lower(the_abi[i].name), Lower(log.topics[1]))

\* C24: for a raw log that corresponds to no event of the ABI, whatever its
\* topic list, parse_event_log raises nothing and returns a record whose
\* event name is "UnknownEvent".
C24_ForeignLogsParseAsUnknown ==
    (ret.op = "parse_event_log" /\ ~Declares(abi, ret.target)) =>
        /\ ret.exc = None
        /\ ret.val # None
        /\ ret.val[1].event = "UnknownEvent"

\* The last call was watch_event and failed for want of the subscribe
\* capability.
NotSupported ==
    /\ ret.val = None
    /\ ret.exc # None
    /\ ret.exc[1].msg[Len(ret.exc[1].msg)] = "Provider does not support subscriptions"

\* The last call was watch_event and returned the id under which the provider
\* registered the subscription to logs for the watched event.
ReturnedSubscribed ==
    /\ ret.exc = None
    /\ ret.val # None
    /\ ret.val[1] \in DOMAIN subscriptions
    /\ subscriptions[ret.val[1]] = [event_type |-> "logs", callback |-> ret.target]

\* Nothing was subscribed and nothing was requested of the provider.
NothingStarted == subscriptions = <<>> /\ requests = <<>>

\* The ABI declares an event of this name.
DeclaredEvent(event_name) ==
    \E i \in 1..Len(abi) : abi[i].type = "event" /\ abi[i].name = event_name

\* C25 as stated: watch_event over a provider without subscribe fails with
\* the does-not-support-subscriptions error, subscribing and requesting
\* nothing; over a provider with subscribe it returns the id subscribe
\* returned.
C25_WatchNeedsSubscribe ==
    /\ provider = "HttpProvider" => NothingStarted
    /\ ret.op = "watch_event" =>
          IF provider = "HttpProvider" THEN NotSupported ELSE ReturnedSubscribed

\* C25, amended: the same for an event the ABI declares; for any other event
\* name watch_event raises ValueError (not found in ABI) over either
\* provider and subscribes nothing.
C25_WatchDeclaredNeedsSubscribe ==
    /\ provider = "HttpProvider" => NothingStarted
    /\ ret.op = "watch_event" =>
          IF ~DeclaredEvent(ret.target)
          THEN /\ ret.exc = EventNotFound(ret.target)
               /\ \A id \in DOMAIN subscriptions : subscriptions[id].callback # ret.target
          ELSE IF provider = "HttpProvider" THEN NotSupported
          ELSE ReturnedSubscribed

\* A declared event was watched over the HTTP provider and refused.
C25_Witness ==
    /\ ret.op = "watch_event"
    /\ DeclaredEvent(ret.target)
    /\ provider = "HttpProvider"
    /\ NotSupported

----------------------------------------------------------------------------
\* Validation

\* "0x" followed by exactly 40 hexadecimal characters and nothing else.
WellFormedAddress(A) ==
    /\ Len(A) = 2 + 40
    /\ SubSeq(A, 1, 2) = "0x"
    /\ \A i \in 3..Len(A) :
          \E j \in 1..Len(HexChars) : SubSeq(A, i, i) = SubSeq(HexChars, j, j)

\* C30: is_eth_address(A) is true exactly when A is "0x" followed by exactly
\* 40 hexadecimal characters and nothing else.
C30_AddressIffPrefixAnd40Hex ==
    ret.op = "is_eth_address" => (ret.val = Some(TRUE) <=> WellFormedAddress(ret.target))

----------------------------------------------------------------------------
\* The chain identifier

\* The last request was eth_chainId and the node answered it with a result.
ChainIdJustFetched ==
    /\ requests # <<>>
    /\ requests[Len(requests)].method = "eth_chainId"
    /\ reply # None
    /\ ~reply[1].raised
    /\ "result" \in DOMAIN reply[1].body

\* C29: a get_chain_id() that returns has just issued eth_chainId and returns
\* the hex-decoded result, and a create_transaction() that returns has primed
\* the fresh builder with a value fetched in the same way.
C29_ChainIdFetchedAtCallTime ==
    /\ (ret.op = "get_chain_id" /\ ret.exc = None) =>
          /\ ChainIdJustFetched
          /\ ret.val = Int16(reply[1].body.result[1])
    /\ (ret.op = "create_transaction" /\ ret.exc = None) =>
          /\ ChainIdJustFetched
          /\ Some(builder.chain_id) = Int16(reply[1].body.result[1])

----------------------------------------------------------------------------
\* Ethereum.send

Occurrences(seq, x) == Cardinality({i \in DOMAIN seq : seq[i] = x})

\* The transaction object created last.
LatestTx == txs["tx" \o ToString(Cardinality(DOMAIN txs))]

\* The send just made had a wallet, a well-formed recipient and a
\* non-negative amount.
SendOfValidArguments ==
    /\ ret.op = "send"
    /\ ret.target.wallet # None
    /\ WellFormedAddress(ret.target.to)
    /\ ret.target.amount >= 0

\* C28: send with a wallet, a valid recipient and a non-negative amount, with
\* or without gas_limit and gas_price, sets recipient and value on the
\* builder, signs the built transaction once, then broadcasts that same
\* transaction once and returns the hash broadcast returned.
C28_SendSignsThenBroadcastsOnce ==
    SendOfValidArguments =>
        /\ Occurrences(trace, "to") = 1
        /\ Occurrences(trace, "value") = 1
        /\ Occurrences(trace, "sign") = 1
        /\ Occurrences(trace, "broadcast") = 1
        /\ \A i, j \in DOMAIN trace :
              (trace[i] = "sign" /\ trace[j] = "broadcast") => i < j
        /\ LatestTx.to = Some(ret.target.to)
        /\ LatestTx.value = ret.target.amount
        /\ SerializeTx(LatestTx).exc = None
        /\ requests # <<>>
        /\ requests[Len(requests)] =
              Request("eth_sendRawTransaction", <<SerializeTx(LatestTx).val[1]>>)
        /\ ret.exc = None =>
              /\ ret.val = reply[1].body.result
              /\ ret.val \in DOMAIN pending
              /\ txs[pending[ret.val]] = LatestTx

----------------------------------------------------------------------------
\* Validation before the network

\* The step raises ValueError without a provider call and without touching
\* the pending map.
RejectedBeforeNetwork ==
    /\ ret'.exc # None
    /\ ret'.exc[1].type = "ValueError"
    /\ requests' = requests
    /\ ws' = ws
    /\ pending' = pending

\* The step is a call that has to be refused: send without a wallet, to a
\* malformed recipient or of a negative amount, get_balance of a malformed
\* address or with neither address nor wallet, or a token transfer to a
\* malformed recipient.
InvalidCall ==
    \/ /\ ret'.op = "send"
       /\ \/ wallet = None
          \/ ~WellFormedAddress(ret'.target.to)
          \/ ret'.target.amount < 0
    \/ /\ ret'.op = "get_balance"
       /\ IF ret'.target = None THEN wallet = None
          ELSE ~WellFormedAddress(ret'.target[1])
    \/ /\ ret'.op = "transfer"
       /\ ~WellFormedAddress(ret'.target.to)

\* C27: send, get_balance and ERC20Token.transfer raise ValueError for
\* invalid input before any provider call and leave the pending map as it
\* was.
C27_ValidationPrecedesNetwork == [][InvalidCall => RejectedBeforeNetwork]_ethCalls

----------------------------------------------------------------------------
\* The pending map

\* The step is a broadcast that submitted a transaction.
Broadcasting ==
    /\ ret'.op = "broadcast"
    /\ Len(requests') = Len(requests) + 1
    /\ requests'[Len(requests')].method = "eth_sendRawTransaction"

\* The step leaves the pending map and every transaction stored in it as
\* they were.
KeepsPending ==
    /\ pending' = pending
    /\ \A h \in DOMAIN pending : txs'[pending[h]] = txs[pending[h]]

\* C26: only broadcast mutates the pending map: every step of
\* create_transaction, get_nonce, estimate_fee, get_status, get_receipt and
\* wait_for_receipt (and every other step that is not a broadcast) leaves the
\* map and the transactions stored in it unchanged, and no step removes an
\* entry, also after the receipt of its transaction has been seen.
C26_PendingMutatedOnlyByBroadcast ==
    [][/\ DOMAIN pending \subseteq DOMAIN pending'
       /\ ~Broadcasting => KeepsPending]_<<pending, txs>>

\* A broadcast transaction is still in the pending map after get_status has
\* seen its receipt and reported it confirmed.
C26_Witness ==
    /\ ret.op = "get_status"
    /\ ret.val = Some(CONFIRMED)
    /\ Some(ret.target) \in DOMAIN pending
    /\ Signed(txs[pending[Some(ret.target)]])

----------------------------------------------------------------------------
\* wait_for_receipt: the first poll and errors

\* The node had the receipt before wait_for_receipt was called.
MinedBeforeCall ==
    /\ chain[wArgs.tx_hash] # None
    /\ chain[wArgs.tx_hash][1].at < wStart

\* C38: wait_for_receipt raises TimeoutError only after at least one
\* get_receipt call, whatever the timeout (0 included), and never when the
\* receipt existed before the call.
C38_PollsBeforeTimeout ==
    wpc = "timeout" =>
        /\ Polls >= 1
        /\ ~MinedBeforeCall

\* The step appends a get_receipt call to the trace of the wait.
Polling == Len(wTrace') = Len(wTrace) + 1 /\ wTrace'[Len(wTrace')].ev = "get_receipt"

\* C35: an exception of get_receipt ends wait_for_receipt at once with that
\* exception: no poll, no sleep and no TimeoutError follows it, and a poll
\* other than the first is made only after a poll that found no receipt and
\* raised nothing.
C35_ReceiptErrorSurfaced ==
    /\ [](wpc = "error" =>
             /\ wResult.exc # None
             /\ wResult = GetReceipt(reply[1])
             /\ wTrace[Len(wTrace)].ev = "get_receipt")
    /\ [][wpc = "error" => UNCHANGED <<wpc, wTrace, wResult>>]_<<wpc, wTrace, wResult>>
    /\ [][(Polling /\ Polls >= 1) =>
             /\ wReceipt = None
             /\ wResult.exc = None
             /\ ~reply[1].raised
             /\ GetReceipt(reply[1]) = Returned(None)]_wTrace

\* The second poll of a wait raised after the first had found no receipt.
C35_Witness ==
    /\ wpc = "error"
    /\ Polls = 2 /\ Sleeps = 1
    /\ wResult.exc[1].type = "Exception"

----------------------------------------------------------------------------
\* The transaction options of a write call

\* The call just made reached broadcast: it returned the node's answer or
\* raised broadcast's own error.
WriteCallBroadcast ==
    /\ ret.op = "call"
    /\ invocations # <<>>
    /\ invocations[Len(invocations)].path = Some("_transact_function")
    /\ \/ ret.exc = None
       \/ ret.exc[1].type = "Exception"

\* The option key of the call's keywords applied to the transaction, or the
\* default where the key was not passed.
OptionOr(inv, key, default) ==
    IF key \in inv.keywords THEN Some(KwValue[key]) ELSE default

\* C37: a write call that reaches broadcast has taken gas, gas_price, value
\* and nonce out of its keywords (the function's arguments are the positional
\* and the remaining named ones) and broadcasts a transaction to the contract
\* address whose gas limit, gas price, value and nonce are the options passed,
\* the value 0 and the others absent where none was passed.
C37_OptionsAppliedToTransaction ==
    WriteCallBroadcast =>
        LET inv == invocations[Len(invocations)]
        IN  /\ Len(inv.args) = inv.positional + Cardinality(inv.keywords \ OptionKeys)
            /\ DOMAIN inv.tx_options = inv.keywords \cap OptionKeys
            /\ requests[Len(requests)] = Request("eth_sendRawTransaction", <<SerializedTx>>)
            /\ LatestTx.to = Some(ContractAddress)
            /\ LatestTx.gas_limit = OptionOr(inv, "gas", None)
            /\ LatestTx.gas_price = OptionOr(inv, "gas_price", None)
            /\ LatestTx.nonce = OptionOr(inv, "nonce", None)
            /\ Some(LatestTx.value) = OptionOr(inv, "value", Some(0))

C37_Witness ==
    /\ WriteCallBroadcast
    /\ ret.exc = None
    /\ invocations[Len(invocations)].keywords = {"gas", "gas_price"}
    /\ LatestTx.gas_limit = Some(21000)
    /\ LatestTx.nonce = None
    /\ LatestTx.value = 0

----------------------------------------------------------------------------
\* The nonce of the transactions send and the write calls broadcast

\* The send just made reached broadcast.
SendBroadcast ==
    /\ ret.op = "send"
    /\ trace # <<>>
    /\ trace[Len(trace)] = "broadcast"

\* C39: send and the write calls never ask the node for a transaction count
\* (get_nonce): the transaction a write call broadcasts has a nonce exactly
\* when the caller passed the nonce option, and then that one; the transaction
\* send broadcasts has none.
C39_NonceNeverFetched ==
    /\ \A i \in 1..Len(requests) : requests[i].method # "eth_getTransactionCount"
    /\ ret.op = "send" => \A i \in 1..Len(trace) : trace[i] \notin {"get_nonce", "nonce"}
    /\ SendBroadcast => LatestTx.nonce = None
    /\ WriteCallBroadcast =>
          LatestTx.nonce = OptionOr(invocations[Len(invocations)], "nonce", None)

\* send has broadcast a transaction and the node has acknowledged it.
C39_Witness ==
    /\ SendBroadcast
    /\ ret.exc = None
    /\ requests # <<>>
    /\ LatestTx.nonce = None
    /\ LatestTx.to = Some(ValidAddress)

----------------------------------------------------------------------------
\* Contract deployment

\* The deploy just made had a wallet and a gas price.
DeployOfValidArguments ==
    /\ ret.op = "deploy"
    /\ ret.target.wallet # None
    /\ "gas_price" \in ret.target.keywords

\* C36: deploy with a wallet and a gas price builds a transaction without a
\* recipient, signs it, broadcasts it and then waits for its receipt, in that
\* order.
C36_DeployBuildsWithoutRecipient ==
    DeployOfValidArguments =>
        /\ ret.exc # NoRecipient
        /\ Len(trace) >= 3
        /\ SubSeq(trace, Len(trace) - 2, Len(trace)) \in
              {<<"build", "sign", "broadcast">>, <<"sign", "broadcast", "wait_for_receipt">>}
        /\ LatestTx.to = None

----------------------------------------------------------------------------
\* The provider's subscriptions

\* The position of the last disconnect in the log, 0 where there is none.
LastDisconnect ==
    LET at == {i \in 1..Len(subLog) : subLog[i].op = "disconnect"}
    IN  IF at = {} THEN 0 ELSE CHOOSE i \in at : \A j \in at : j <= i

\* The calls of op that returned ok since the last disconnect.
SinceDisconnect(op, ok) ==
    {i \in (LastDisconnect + 1)..Len(subLog) : subLog[i].op = op /\ subLog[i].ok = ok}

\* C40: on a WebSocketProvider the active subscriptions number the subscribes
\* minus the unsubscribes that returned True since the last disconnect (every
\* subscribe having returned an id that was not active), an unsubscribe
\* returns True exactly when its id was active and leaves it inactive, and
\* after a disconnect nothing is active.
C40_ActiveSubscriptionsCounted ==
    /\ Cardinality(DOMAIN subscriptions) =
          Cardinality(SinceDisconnect("subscribe", TRUE))
          - Cardinality(SinceDisconnect("unsubscribe", TRUE))
    /\ ret.op = "unsubscribe" => ret.target \notin DOMAIN subscriptions
    /\ ret.op = "disconnect" => subscriptions = <<>>

----------------------------------------------------------------------------
\* The token's metadata

\* C32 as stated: once an access to name, symbol or decimals has read the
\* contract without an exception, no later access to that property calls the
\* contract, and each returns what that read returned.
C32_MetadataReadOnce ==
    \A i, j \in 1..Len(accesses) :
        (/\ i < j
         /\ accesses[i].prop = accesses[j].prop
         /\ accesses[i].called
         /\ accesses[i].out.exc = None)
        => /\ ~accesses[j].called
           /\ accesses[j].out = accesses[i].out

\* C32: once an access to name, symbol or decimals has read a value other
\* than None from the contract, no later access to that property calls the
\* contract, and each returns that value, whatever accesses to the other
\* properties come in between.
C32_MetadataReadOnceAmended ==
    \A i, j \in 1..Len(accesses) :
        (/\ i < j
         /\ accesses[i].prop = accesses[j].prop
         /\ accesses[i].called
         /\ accesses[i].out.exc = None
         /\ accesses[i].out.val # None)
        => /\ ~accesses[j].called
           /\ accesses[j].out = accesses[i].out
           /\ Cardinality({k \in 1..Len(requests) :
                              requests[k].params[1].data = accesses[i].prop \o "()"})
              = Cardinality({k \in 1..i : accesses[k].prop = accesses[i].prop})

\* name was read, symbol was accessed, and name was accessed again.
C32_Witness ==
    /\ Len(accesses) = 3
    /\ accesses[1] = [prop |-> "name", called |-> TRUE, out |-> Returned(Some(PyStr("0x2a")))]
    /\ accesses[2].prop = "symbol"
    /\ accesses[3] = [prop |-> "name", called |-> FALSE, out |-> Returned(Some(PyStr("0x2a")))]

----------------------------------------------------------------------------
\* Concurrent first access and concurrent broadcasts

\* Both flows have run their call to its end.
BothDone == \A f \in Flows : fpc[f] = "done" /\ fLocal[f] # None

\* Both flows looked the same name up on the same facade and both obtained a
\* function.
ConcurrentFirstLookups ==
    /\ BothDone
    /\ fLocal[1][1].group = fLocal[2][1].group
    /\ fLocal[1][1].name = fLocal[2][1].name
    /\ \A f \in Flows : fLocal[f][1].out.exc = None
    /\ allocated >= 1

\* C33: two flows that look the same function name up on the same facade
\* obtain the identical ContractFunction object, the one the cache holds, and
\* one object has been constructed for the name.
C33_ConcurrentLookupsShareFunction ==
    ConcurrentFirstLookups =>
        /\ fLocal[1][1].out = fLocal[2][1].out
        /\ functions[fLocal[1][1].group][fLocal[1][1].name] = fLocal[1][1].out.val[1]
        /\ allocated = 1

\* Both flows broadcast and the node acknowledged both.
BothAcknowledged ==
    /\ BothDone
    /\ \A f \in Flows : fLocal[f][1].tx_hash # None
    /\ fLocal[1][1].t # fLocal[2][1].t

\* C34: after two concurrent broadcasts of different signed transactions that
\* the node both acknowledged, the pending map holds both transactions under
\* two separate keys.
C34_ConcurrentBroadcastsBothPending ==
    BothAcknowledged =>
        /\ Cardinality(DOMAIN pending) = 2
        /\ {pending[k] : k \in DOMAIN pending} = {fLocal[f][1].t : f \in Flows}

----------------------------------------------------------------------------
\* Amounts in base units

\* amount * 10^d exactly, for an amount with no more than d decimal places.
BaseUnits(amount, d) == TimesPow10(Bits(amount.num), d - amount.places)

\* C31: a float amount a is passed on as round(a * 10^D), D being 18 for send
\* and the token's decimals for a token, and for an amount with no more than
\* D decimal places that is a * 10^D exactly.
C31_FloatAmountsRounded ==
    ret.op \in {"send", "transfer"} =>
        /\ ret.val[1] = RoundOf(FloatTimesPow10(FloatOf(ret.target.amount), ret.target.decimals))
        /\ ret.val[1] = BaseUnits(ret.target.amount, ret.target.decimals)

====
